---- MODULE Spec2Model ----
(***************************************************************************)
(* Onyx: terminal chat client.  State machines of the interactive session  *)
(* engine: the text-edit buffer (onyx-tui/src/text_input.rs), the undo     *)
(* history, the scroll manager (onyx-tui/src/scroll.rs), the streaming     *)
(* response decoder (onyx-agent/src/chat.rs) and the main loop             *)
(* (onyx/src/main.rs, onyx-tui/src/ui.rs).                                 *)
(*                                                                         *)
(* A Rust String is modelled as the sequence of its chars; every offset    *)
(* the code keeps into a String is a BYTE offset, as in the code, and the  *)
(* String methods panic on an offset that is not a char boundary.          *)
(***************************************************************************)
EXTENDS Integers, Sequences, FiniteSets, TLC

VARIABLES
    input_state,    \* TextInputState {text, cursor_position, selection_start}
    panicked,       \* the running thread panicked (String/usize check failed)
    undo_manager,   \* UndoManager {history, position, last_save_time}
    now,            \* Instant::now(), in milliseconds
    undo_result,    \* what the last UndoManager::undo returned (Option)
    walk,           \* history of calls since UndoManager::new()/clear()
    undo_call,      \* the last UndoManager call and its arguments
    scroll_manager, \* ScrollManager {position, auto_scroll}
    overflow_checks,\* the build panics on integer overflow (debug profile)
    scroll_call,    \* the last ScrollManager call and its arguments
    backend,        \* what agent.prompt(..).await yields: a reply or an error
    decoder,        \* send_stream's locals and program counter
    stream,         \* the channel behind tx: receiver alive?, events queued
    emitted,        \* every event send_stream has passed to tx.send
    app,            \* App
    agent,          \* main's agent is Some(..): a ChatAgent could be built
    tasks,          \* per submission: the spawned forwarding and agent tasks
    rx,             \* main's channel (tx, rx): receiver alive?, events queued
    applied,        \* the events the drain loop has applied, in order
    last_key,       \* the key the last handle_event of an App on its own got
    key_count       \* the keys that App has handled

textVars == <<input_state>>
undoVars == <<undo_manager, undo_result, walk, undo_call>>
scrollVars == <<scroll_manager, overflow_checks, scroll_call>>
decodeVars == <<backend, decoder, stream, emitted>>
sessionVars == <<app, agent, tasks, rx, applied, last_key, key_count>>
vars == <<input_state, panicked, undo_manager, now, undo_result, walk, undo_call,
          scroll_manager, overflow_checks, scroll_call,
          backend, decoder, stream, emitted,
          app, agent, tasks, rx, applied, last_key, key_count>>

(***************************************************************************)
(* Bounds of the model.                                                    *)
(***************************************************************************)
MaxTextChars == 3       \* chars typed into an edit buffer
MAX_UNDO_HISTORY == 4   \* text_input.rs:4 has 100; scaled down
MaxTime == 1002         \* the clock stops advancing here
MaxContent == 5         \* content_length and target line of a scroll call
MaxViewport == 3        \* viewport_height of a scroll call
MaxScroll == 12         \* scroll_down stops here
MaxSegments == 3        \* segments a backend reply is made of
MaxInputChars == 1      \* chars typed into the App's input line
MaxSubmissions == 2     \* submissions sent to the backend
MaxMessages == 4        \* messages in the transcript
MaxMenuChars == 3       \* chars typed into the input line with the command menu
MaxKeys == 5            \* keys an App on its own handles

(***************************************************************************)
(* Option<T>                                                               *)
(***************************************************************************)
None == [is_some |-> FALSE, v |-> 0]
Some(x) == [is_some |-> TRUE, v |-> x]

(***************************************************************************)
(* Rust String: chars and their UTF-8 widths.                              *)
(***************************************************************************)
\* "U+00E9" is e-acute (2 bytes), "U+4E2D" is the CJK char zhong (3 bytes).
len_utf8(c) == CASE c = "U+00E9" -> 2
                 [] c = "U+4E2D" -> 3
                 [] OTHER -> 1

RECURSIVE str_len(_)
\* String::len: the length in bytes
str_len(t) == IF t = <<>> THEN 0 ELSE len_utf8(Head(t)) + str_len(Tail(t))

\* byte offset at which the (k+1)-th char starts, k in 0..Len(t)
char_offset(t, k) == str_len(SubSeq(t, 1, k))

\* str::is_char_boundary
is_char_boundary(t, i) == \E k \in 0..Len(t) : char_offset(t, k) = i

\* number of whole chars before the boundary i
chars_before(t, i) == CHOOSE k \in 0..Len(t) : char_offset(t, k) = i

Ok(x) == [panic |-> FALSE, val |-> x]
Panic(x) == [panic |-> TRUE, val |-> x]

\* String::insert(idx, ch): asserts is_char_boundary(idx)
string_insert(t, idx, c) ==
    IF ~is_char_boundary(t, idx) THEN Panic(t)
    ELSE LET k == chars_before(t, idx)
         IN Ok(SubSeq(t, 1, k) \o <<c>> \o SubSeq(t, k + 1, Len(t)))

\* String::remove(idx): slices self[idx..] and removes its first char;
\* panics off a boundary and at the end of the string
string_remove(t, idx) ==
    IF ~is_char_boundary(t, idx) \/ idx >= str_len(t) THEN Panic(t)
    ELSE LET k == chars_before(t, idx)
         IN Ok(SubSeq(t, 1, k) \o SubSeq(t, k + 2, Len(t)))

\* String::replace_range(start..end, with): asserts both ends are boundaries
string_replace_range(t, start, end, with) ==
    IF ~is_char_boundary(t, start) \/ ~is_char_boundary(t, end) \/ start > end
    THEN Panic(t)
    ELSE LET a == chars_before(t, start)
             b == chars_before(t, end)
         IN Ok(SubSeq(t, 1, a) \o with \o SubSeq(t, b + 1, Len(t)))

(***************************************************************************)
(* TextInputState (onyx-tui/src/text_input.rs)                             *)
(***************************************************************************)
TextInputState_new == [text |-> <<>>, cursor_position |-> 0, selection_start |-> None]

selection_range(s) ==
    IF s.selection_start.is_some
    THEN IF s.selection_start.v < s.cursor_position
         THEN Some(<<s.selection_start.v, s.cursor_position>>)
         ELSE Some(<<s.cursor_position, s.selection_start.v>>)
    ELSE None

has_selection(s) == s.selection_start.is_some

clear_selection(s) == [s EXCEPT !.selection_start = None]

take_text(s) == [text |-> <<>>, cursor_position |-> 0, selection_start |-> None]

insert_char(s, c) ==
    LET sel == selection_range(s) IN
    IF sel.is_some
    THEN LET r == string_replace_range(s.text, sel.v[1], sel.v[2], <<c>>)
         IN IF r.panic THEN Panic(s)
            ELSE Ok([text |-> r.val, cursor_position |-> sel.v[1] + 1,
                     selection_start |-> None])
    ELSE LET r == string_insert(s.text, s.cursor_position, c)
         IN IF r.panic THEN Panic(s)
            ELSE Ok([s EXCEPT !.text = r.val,
                              !.cursor_position = s.cursor_position + 1])

delete_char_before(s) ==
    LET sel == selection_range(s) IN
    IF sel.is_some
    THEN LET r == string_replace_range(s.text, sel.v[1], sel.v[2], <<>>)
         IN IF r.panic THEN Panic(s)
            ELSE Ok([text |-> r.val, cursor_position |-> sel.v[1],
                     selection_start |-> None])
    ELSE IF s.cursor_position > 0
    THEN LET r == string_remove(s.text, s.cursor_position - 1)
         IN IF r.panic THEN Panic([s EXCEPT !.cursor_position = s.cursor_position - 1])
            ELSE Ok([s EXCEPT !.text = r.val,
                              !.cursor_position = s.cursor_position - 1])
    ELSE Ok(s)

delete_char_after(s) ==
    LET sel == selection_range(s) IN
    IF sel.is_some
    THEN LET r == string_replace_range(s.text, sel.v[1], sel.v[2], <<>>)
         IN IF r.panic THEN Panic(s)
            ELSE Ok([text |-> r.val, cursor_position |-> sel.v[1],
                     selection_start |-> None])
    ELSE IF s.cursor_position < str_len(s.text)
    THEN LET r == string_remove(s.text, s.cursor_position)
         IN IF r.panic THEN Panic(s) ELSE Ok([s EXCEPT !.text = r.val])
    ELSE Ok(s)

move_cursor_left(s, with_selection) ==
    IF with_selection
    THEN LET a == IF s.selection_start.is_some THEN s.selection_start
                  ELSE Some(s.cursor_position)
         IN [s EXCEPT !.selection_start = a,
                      !.cursor_position = IF s.cursor_position > 0
                                          THEN s.cursor_position - 1
                                          ELSE s.cursor_position]
    ELSE IF has_selection(s)
    THEN [s EXCEPT !.cursor_position = selection_range(s).v[1],
                   !.selection_start = None]
    ELSE IF s.cursor_position > 0
    THEN [s EXCEPT !.cursor_position = s.cursor_position - 1]
    ELSE s

move_cursor_right(s, with_selection) ==
    IF with_selection
    THEN LET a == IF s.selection_start.is_some THEN s.selection_start
                  ELSE Some(s.cursor_position)
         IN [s EXCEPT !.selection_start = a,
                      !.cursor_position = IF s.cursor_position < str_len(s.text)
                                          THEN s.cursor_position + 1
                                          ELSE s.cursor_position]
    ELSE IF has_selection(s)
    THEN [s EXCEPT !.cursor_position = selection_range(s).v[2],
                   !.selection_start = None]
    ELSE IF s.cursor_position < str_len(s.text)
    THEN [s EXCEPT !.cursor_position = s.cursor_position + 1]
    ELSE s

select_all(s) == [s EXCEPT !.selection_start = Some(0),
                           !.cursor_position = str_len(s.text)]

clear(s) == [text |-> <<>>, cursor_position |-> 0, selection_start |-> None]

(***************************************************************************)
(* UndoManager (onyx-tui/src/text_input.rs)                                *)
(***************************************************************************)
UNDO_GROUP_INTERVAL_MS == 500

UndoManager_new(t) ==
    [history |-> <<TextInputState_new>>, position |-> 0, last_save_time |-> t]

\* Vec::truncate(n): keeps the first n elements, no effect when n >= len
truncate(v, n) == IF n < Len(v) THEN SubSeq(v, 1, n) ELSE v

\* usize::saturating_sub
saturating_sub(a, b) == IF a >= b THEN a - b ELSE 0

\* the mutant of UndoManager_save that keeps the snapshots after position
UndoManager_save_keeps_future(um, state, force, t) ==
    IF force \/ t - um.last_save_time > UNDO_GROUP_INTERVAL_MS
    THEN IF um.history[Len(um.history)] # state
         THEN LET h2 == Append(um.history, state)
              IN IF Len(h2) > MAX_UNDO_HISTORY
                 THEN [history |-> Tail(h2), position |-> Len(h2) - 2,
                       last_save_time |-> t]
                 ELSE [history |-> h2, position |-> Len(h2) - 1,
                       last_save_time |-> t]
         ELSE [um EXCEPT !.last_save_time = t]
    ELSE um

\* the mutant of UndoManager_save that restarts the interval at every call
UndoManager_save_restarts_interval(um, state, force, t) ==
    IF force \/ t - um.last_save_time > UNDO_GROUP_INTERVAL_MS
    THEN LET h == truncate(um.history, um.position + 1)
         IN IF h[Len(h)] # state
            THEN LET h2 == Append(h, state)
                 IN IF Len(h2) > MAX_UNDO_HISTORY
                    THEN [history |-> Tail(h2), position |-> Len(h2) - 2,
                          last_save_time |-> t]
                    ELSE [history |-> h2, position |-> Len(h2) - 1,
                          last_save_time |-> t]
            ELSE [um EXCEPT !.history = h, !.last_save_time = t]
    ELSE [um EXCEPT !.last_save_time = t]

\* the mutant of UndoManager_save that forgets to evict the oldest snapshot
UndoManager_save_keeps_all(um, state, force, t) ==
    IF force \/ t - um.last_save_time > UNDO_GROUP_INTERVAL_MS
    THEN LET h == truncate(um.history, um.position + 1)
         IN IF h[Len(h)] # state
            THEN [history |-> Append(h, state), position |-> Len(h),
                  last_save_time |-> t]
            ELSE [um EXCEPT !.history = h, !.last_save_time = t]
    ELSE um

\* UndoManager::save(&mut self, state, force), called at Instant t
UndoManager_save(um, state, force, t) ==
    LET elapsed == t - um.last_save_time
        should_save == force \/ elapsed > UNDO_GROUP_INTERVAL_MS
    IN IF should_save
       THEN LET h1 == IF um.position < Len(um.history)
                      THEN truncate(um.history, um.position + 1)
                      ELSE um.history
            IN IF h1[Len(h1)] # state
               THEN LET h2 == Append(h1, state)
                        p2 == Len(h2) - 1
                    IN IF Len(h2) > MAX_UNDO_HISTORY
                       THEN [history |-> Tail(h2),
                             position |-> saturating_sub(p2, 1),
                             last_save_time |-> t]
                       ELSE [history |-> h2, position |-> p2, last_save_time |-> t]
               ELSE [um EXCEPT !.history = h1, !.last_save_time = t]
       ELSE um

\* the mutant of UndoManager_undo that forgets the snapshots it steps over
UndoManager_undo_drops_future(um) ==
    IF um.position > 0
    THEN [um |-> [um EXCEPT !.position = um.position - 1,
                            !.history = truncate(um.history, um.position)],
          ret |-> Some(um.history[um.position])]
    ELSE [um |-> um, ret |-> None]

\* the mutant of UndoManager_undo that returns the snapshot it steps away from
UndoManager_undo_off_by_one(um) ==
    IF um.position > 0
    THEN [um |-> [um EXCEPT !.position = um.position - 1],
          ret |-> Some(um.history[um.position + 1])]
    ELSE [um |-> um, ret |-> None]

\* UndoManager::undo(&mut self) -> Option<TextInputState>
UndoManager_undo(um) ==
    IF um.position > 0
    THEN [um |-> [um EXCEPT !.position = um.position - 1],
          ret |-> Some(um.history[um.position])]
    ELSE [um |-> um, ret |-> None]

\* UndoManager::clear(&mut self), called at Instant t
UndoManager_clear(um, t) == UndoManager_new(t)

(***************************************************************************)
(* ScrollManager (onyx-tui/src/scroll.rs).  The ratatui ScrollbarState it  *)
(* feeds is a rendering widget and is left out.                            *)
(***************************************************************************)
SCROLL_PAGE_AMOUNT == 10

ScrollManager_new == [position |-> 0, auto_scroll |-> TRUE]

Min(a, b) == IF a <= b THEN a ELSE b

scroll_to_top(sm) == [position |-> 0, auto_scroll |-> FALSE]

scroll_to_bottom(sm) == [sm EXCEPT !.auto_scroll = TRUE]

\* the mutant of scroll_up that leaves auto_scroll as it was
scroll_up_keeps_follow(sm, amount) ==
    [sm EXCEPT !.position = saturating_sub(sm.position, amount)]

scroll_up(sm, amount) ==
    [position |-> saturating_sub(sm.position, amount), auto_scroll |-> FALSE]

\* saturating_add; the model keeps position far below usize::MAX
scroll_down(sm, amount) ==
    [position |-> sm.position + amount, auto_scroll |-> FALSE]

\* the mutant of update that clamps the position in both modes
ScrollManager_update_never_pins(sm, content_length, viewport_height) ==
    [sm EXCEPT !.position = Min(sm.position, saturating_sub(content_length, 1))]

ScrollManager_update(sm, content_length, viewport_height) ==
    [sm EXCEPT !.position =
        IF sm.auto_scroll
        THEN saturating_sub(content_length, viewport_height)
        ELSE Min(sm.position, saturating_sub(content_length, 1))]

\* the mutant of ensure_visible that puts the target line one below the window
ensure_visible_below_window(sm, line, viewport_height, content_length, checks) ==
    LET p1 == IF line < sm.position THEN line
              ELSE IF line >= sm.position + viewport_height
              THEN saturating_sub(line, viewport_height)
              ELSE sm.position
    IN Ok([sm EXCEPT !.position =
              Min(p1, saturating_sub(content_length, viewport_height))])

\* ScrollManager::ensure_visible.  viewport_height - 1 underflows for
\* viewport_height = 0: a panic where overflow checks are compiled in,
\* usize::MAX otherwise (and line.saturating_sub(usize::MAX) = 0).
ensure_visible(sm, line, viewport_height, content_length, checks) ==
    IF line >= sm.position /\ line >= sm.position + viewport_height
       /\ viewport_height = 0 /\ checks
    THEN Panic(sm)
    ELSE LET p1 == IF line < sm.position THEN line
                   ELSE IF line >= sm.position + viewport_height
                   THEN IF viewport_height = 0 THEN 0
                        ELSE saturating_sub(line, viewport_height - 1)
                   ELSE sm.position
             max_scroll == saturating_sub(content_length, viewport_height)
         IN Ok([sm EXCEPT !.position = Min(p1, max_scroll)])

ScrollManager_reset(sm) == [position |-> 0, auto_scroll |-> TRUE]

\* the record of a call: its name, arguments and the position it started from
ScrollCall(op, line, h, n, before) ==
    [op |-> op, line |-> line, viewport_height |-> h, content_length |-> n,
     before |-> before]

NoScrollCall == ScrollCall("new", 0, 0, 0, 0)

(***************************************************************************)
(* ChatAgent::send_stream (onyx-agent/src/chat.rs)                         *)
(***************************************************************************)
THINKING_OPEN == <<"<", "t", "h", "i", "n", "k", "i", "n", "g", ">">>
THINKING_CLOSE == <<"<", "/", "t", "h", "i", "n", "k", "i", "n", "g", ">">>
FLUSH_LEN == 5

\* StreamEvent; text is the payload of a chunk or an Error, <<>> otherwise
StreamEvent(kind, text) == [kind |-> kind, text |-> text]

BackendOk(text) == [ok |-> TRUE, text |-> text]
BackendErr == [ok |-> FALSE, text |-> <<>>]

\* str::ends_with
ends_with(s, m) == Len(s) >= Len(m) /\ SubSeq(s, Len(s) - Len(m) + 1, Len(s)) = m

\* str::strip_suffix(m).unwrap_or(s)
strip_suffix(s, m) == IF ends_with(s, m) THEN SubSeq(s, 1, Len(s) - Len(m)) ELSE s

\* before agent.prompt(..).await has returned
Decoder_start == [pc |-> "prompt", rest |-> <<>>, in_thinking |-> FALSE,
                  current_chunk |-> <<>>, result |-> "none"]

\* the match on agent.prompt(..).await with `?`: Err returns at once,
\* Ok(response_text) enters the loop over response_text.chars()
decode_prompt(d, b) ==
    IF b.ok
    THEN [d EXCEPT !.pc = IF b.text = <<>> THEN "tail" ELSE "loop", !.rest = b.text]
    ELSE [d EXCEPT !.pc = "returned", !.result = "Err"]

\* the mutant of decode_char that goes on after a failed send
decode_char_ignores_send_error(d, sink_open) ==
    LET chunk == Append(d.current_chunk, Head(d.rest))
        more == IF Tail(d.rest) = <<>> THEN "tail" ELSE "loop"
    IN IF str_len(chunk) >= FLUSH_LEN
       THEN [d |-> [d EXCEPT !.current_chunk = <<>>, !.rest = Tail(d.rest),
                             !.pc = more],
             sends |-> <<StreamEvent("ContentChunk", chunk)>>]
       ELSE [d |-> [d EXCEPT !.current_chunk = chunk, !.rest = Tail(d.rest),
                             !.pc = more],
             sends |-> <<>>]

\* the mutant of decode_char that labels every flushed chunk a ThinkingChunk
decode_char_all_thinking(d, sink_open) ==
    LET chunk == Append(d.current_chunk, Head(d.rest))
        more == IF Tail(d.rest) = <<>> THEN "tail" ELSE "loop"
    IN IF str_len(chunk) >= FLUSH_LEN
       THEN [d |-> [d EXCEPT !.current_chunk = <<>>, !.rest = Tail(d.rest),
                             !.pc = IF sink_open THEN more ELSE "tail"],
             sends |-> <<StreamEvent("ThinkingChunk", chunk)>>]
       ELSE [d |-> [d EXCEPT !.current_chunk = chunk, !.rest = Tail(d.rest),
                             !.pc = more],
             sends |-> <<>>]

\* the mutant of decode_char that flushes the buffer without the character
\* it has just read
decode_char_drops_char(d, sink_open) ==
    LET chunk == Append(d.current_chunk, Head(d.rest))
        more == IF Tail(d.rest) = <<>> THEN "tail" ELSE "loop"
    IN IF str_len(chunk) >= FLUSH_LEN
       THEN [d |-> [d EXCEPT !.current_chunk = <<>>, !.rest = Tail(d.rest),
                             !.pc = IF sink_open THEN more ELSE "tail"],
             sends |-> <<StreamEvent("ContentChunk", d.current_chunk)>>]
       ELSE [d |-> [d EXCEPT !.current_chunk = chunk, !.rest = Tail(d.rest),
                             !.pc = more],
             sends |-> <<>>]

\* one iteration of `for c in response_text.chars()`: the new locals and the
\* events passed to tx.send; a failed send of a flushed chunk breaks the loop
decode_char(d, sink_open) ==
    LET chunk == Append(d.current_chunk, Head(d.rest))
        more == IF Tail(d.rest) = <<>> THEN "tail" ELSE "loop"
    IN IF ends_with(chunk, THINKING_OPEN)
       THEN [d |-> [d EXCEPT !.in_thinking = TRUE, !.current_chunk = <<>>,
                             !.rest = Tail(d.rest), !.pc = more],
             sends |-> <<StreamEvent("ThinkingStart", <<>>)>>]
       ELSE IF ends_with(chunk, THINKING_CLOSE) /\ d.in_thinking
       THEN LET thinking_text == strip_suffix(chunk, THINKING_CLOSE)
            IN [d |-> [d EXCEPT !.in_thinking = FALSE, !.current_chunk = <<>>,
                                !.rest = Tail(d.rest), !.pc = more],
                sends |-> (IF thinking_text # <<>>
                           THEN <<StreamEvent("ThinkingChunk", thinking_text)>>
                           ELSE <<>>)
                          \o <<StreamEvent("ThinkingEnd", <<>>)>>]
       ELSE IF str_len(chunk) >= FLUSH_LEN
       THEN [d |-> [d EXCEPT !.current_chunk = <<>>, !.rest = Tail(d.rest),
                             !.pc = IF sink_open THEN more ELSE "tail"],
             sends |-> <<StreamEvent(IF d.in_thinking THEN "ThinkingChunk"
                                     ELSE "ContentChunk", chunk)>>]
       ELSE [d |-> [d EXCEPT !.current_chunk = chunk, !.rest = Tail(d.rest),
                             !.pc = more],
             sends |-> <<>>]

\* the mutant of decode_tail that drops the residual buffer
decode_tail_drops_residual(d) ==
    [d |-> [d EXCEPT !.pc = "returned", !.result = "Ok", !.current_chunk = <<>>],
     sends |-> <<StreamEvent("Done", <<>>)>>]

\* after the loop: the residual buffer, then Done, then Ok(())
decode_tail(d) ==
    [d |-> [d EXCEPT !.pc = "returned", !.result = "Ok", !.current_chunk = <<>>],
     sends |-> (IF d.current_chunk # <<>>
                THEN IF d.in_thinking
                     THEN <<StreamEvent("ThinkingChunk", d.current_chunk),
                            StreamEvent("ThinkingEnd", <<>>)>>
                     ELSE <<StreamEvent("ContentChunk", d.current_chunk)>>
                ELSE <<>>)
               \o <<StreamEvent("Done", <<>>)>>]

\* a channel that hands the newest events out first
channel_send_front(ch, events) ==
    IF ch.open THEN [ch EXCEPT !.queue = events \o ch.queue] ELSE ch

\* UnboundedSender::send on channel ch: queued while the receiver is alive,
\* an Err (and the event dropped) once it is gone
channel_send(ch, events) ==
    IF ch.open THEN [ch EXCEPT !.queue = ch.queue \o events] ELSE ch

(***************************************************************************)
(* Message (onyx-core/src/types.rs)                                        *)
(***************************************************************************)
Message(role, content, is_streaming) ==
    [role |-> role, content |-> content, thinking |-> None,
     is_streaming |-> is_streaming]

Message_user(content) == Message("User", content, FALSE)

Message_assistant(content) == Message("Assistant", content, FALSE)

Message_assistant_streaming == Message("Assistant", <<>>, TRUE)

append_content(msg, chunk) == [msg EXCEPT !.content = msg.content \o chunk]

append_thinking(msg, chunk) ==
    [msg EXCEPT !.thinking = IF msg.thinking.is_some
                             THEN Some(msg.thinking.v \o chunk)
                             ELSE Some(chunk)]

finish_streaming(msg) == [msg EXCEPT !.is_streaming = FALSE]

(***************************************************************************)
(* App (onyx-tui/src/ui.rs).  A String is a sequence of chars; the texts   *)
(* of the fixed replies are single tokens.  The fields that only feed the  *)
(* renderer (theme, spinner_state, scroll_state, show_help) and scroll,    *)
(* which render_chat_area recomputes from the rendered lines, are left out.*)
(***************************************************************************)
App_new ==
    [messages |-> <<>>, input |-> <<>>, cursor_position |-> 0,
     selection_start |-> None, should_quit |-> FALSE, submit |-> FALSE,
     is_processing |-> FALSE, show_command_menu |-> FALSE,
     command_menu_selected |-> 0, undo_history |-> << <<<<>>, 0>> >>,
     undo_position |-> 0, undo_group_timer |-> 0, mode |-> "Chat",
     auto_scroll |-> TRUE]

add_message(a, message) ==
    [a EXCEPT !.messages = Append(a.messages, message), !.auto_scroll = TRUE]

set_processing(a, processing) == [a EXCEPT !.is_processing = processing]

\* char::is_whitespace, on the chars of the model
is_whitespace(c) == c \in {" ", "\n", "\t"}

\* char::is_ascii_punctuation, on the chars of the model
is_ascii_punctuation(c) == c \in {"/", "<", ">", "!", ".", ","}

\* App::get_selection_range: the App keeps the TextInputState fields inline
get_selection_range(a) ==
    selection_range([text |-> a.input, cursor_position |-> a.cursor_position,
                     selection_start |-> a.selection_start])

\* str::rfind(char::is_whitespace) on the chars before char index k:
\* the char index (from 1) of the last whitespace, 0 for None
rfind_whitespace(t, k) ==
    LET ws == {i \in 1..k : is_whitespace(t[i])}
    IN IF ws = {} THEN 0 ELSE CHOOSE i \in ws : \A j \in ws : j <= i

\* the mutant of update_command_menu that hides the menu without resetting
\* the selected index
update_command_menu_keeps_index(a) ==
    IF ~is_char_boundary(a.input, a.cursor_position) THEN Panic(a)
    ELSE LET k == chars_before(a.input, a.cursor_position)
             w == rfind_whitespace(a.input, k)
         IN Ok([a EXCEPT !.show_command_menu = w < k /\ a.input[w + 1] = "/"])

\* App::update_command_menu; &self.input[..cursor_position] panics off a
\* char boundary
update_command_menu(a) ==
    IF ~is_char_boundary(a.input, a.cursor_position) THEN Panic(a)
    ELSE LET k == chars_before(a.input, a.cursor_position)
             w == rfind_whitespace(a.input, k)
         IN IF w < k /\ a.input[w + 1] = "/"
            THEN Ok([a EXCEPT !.show_command_menu = TRUE])
            ELSE Ok([a EXCEPT !.show_command_menu = FALSE,
                              !.command_menu_selected = 0])

\* App::save_to_undo(force), called at Instant t
save_to_undo(a, force, t) ==
    IF force \/ t - a.undo_group_timer > UNDO_GROUP_INTERVAL_MS
    THEN LET h1 == IF a.undo_position < Len(a.undo_history)
                   THEN truncate(a.undo_history, a.undo_position + 1)
                   ELSE a.undo_history
             state == <<a.input, a.cursor_position>>
         IN IF h1[Len(h1)] # state
            THEN LET h2 == Append(h1, state)
                 IN IF Len(h2) > MAX_UNDO_HISTORY
                    THEN [a EXCEPT !.undo_history = Tail(h2),
                                   !.undo_position = saturating_sub(Len(h2) - 1, 1),
                                   !.undo_group_timer = t]
                    ELSE [a EXCEPT !.undo_history = h2,
                                   !.undo_position = Len(h2) - 1,
                                   !.undo_group_timer = t]
            ELSE [a EXCEPT !.undo_history = h1, !.undo_group_timer = t]
    ELSE a

\* App::new's available_commands, the keywords (the descriptions are only
\* rendered)
available_commands ==
    << <<"/", "h", "e", "l", "p">>,
       <<"/", "c", "o", "n", "f", "i", "g">>,
       <<"/", "n", "o", "w">>,
       <<"/", "s", "a", "v", "e">> >>

\* str::starts_with
starts_with(s, prefix) ==
    Len(prefix) <= Len(s) /\ SubSeq(s, 1, Len(prefix)) = prefix

\* the entries of a Vec that satisfy keep, in the Vec's order (Iterator::filter)
RECURSIVE filter_commands(_, _)
filter_commands(table, prefix) ==
    IF table = <<>> THEN <<>>
    ELSE (IF starts_with(Head(table), prefix) THEN <<Head(table)>> ELSE <<>>)
         \o filter_commands(Tail(table), prefix)

\* the mutant of get_filtered_commands that matches the keyword anywhere
\* after the sigil
get_filtered_commands_any_sigil(a) ==
    IF ~is_char_boundary(a.input, a.cursor_position) THEN Panic(<<>>)
    ELSE LET k == chars_before(a.input, a.cursor_position)
             w == rfind_whitespace(a.input, k)
         IN IF w < k /\ a.input[w + 1] = "/"
            THEN Ok(filter_commands(available_commands, <<"/">>))
            ELSE Ok(<<>>)

\* App::get_filtered_commands; &self.input[..cursor_position] panics off a
\* char boundary
get_filtered_commands(a) ==
    IF ~is_char_boundary(a.input, a.cursor_position) THEN Panic(<<>>)
    ELSE LET k == chars_before(a.input, a.cursor_position)
             w == rfind_whitespace(a.input, k)
             command_prefix == SubSeq(a.input, w + 1, k)
         IN IF ~starts_with(command_prefix, <<"/">>) THEN Ok(<<>>)
            ELSE Ok(filter_commands(available_commands, command_prefix))

\* App::get_command_menu_state: what render_command_menu draws, if anything
get_command_menu_state(a) ==
    IF a.show_command_menu /\ ~get_filtered_commands(a).panic
       /\ get_filtered_commands(a).val # <<>>
    THEN Some(<<get_filtered_commands(a).val, a.command_menu_selected>>)
    ELSE None

\* the App's input, cursor_position and selection_start as an edit buffer
input_fields(a) ==
    [text |-> a.input, cursor_position |-> a.cursor_position,
     selection_start |-> a.selection_start]

\* the App with the edit buffer s
set_input_fields(a, s) ==
    [a EXCEPT !.input = s.text, !.cursor_position = s.cursor_position,
              !.selection_start = s.selection_start]

\* the mutant of App::undo that keeps the selection anchor
App_undo_keeps_selection(a) ==
    IF a.undo_position > 0
    THEN LET st == a.undo_history[a.undo_position]
         IN update_command_menu(
              [a EXCEPT !.undo_position = a.undo_position - 1,
                        !.input = st[1], !.cursor_position = st[2]])
    ELSE Ok(a)

\* App::undo
App_undo(a) ==
    IF a.undo_position > 0
    THEN LET st == a.undo_history[a.undo_position]
         IN update_command_menu(
              [a EXCEPT !.undo_position = a.undo_position - 1,
                        !.input = st[1], !.cursor_position = st[2],
                        !.selection_start = None])
    ELSE Ok(a)

\* a key event: kind is "Char" (with its char c), the name of a key or
\* chord, or "Timeout" (poll found no event within its 100 ms)
Key(kind, c) == [kind |-> kind, c |-> c]

\* the Tab arm of App::handle_event: the current word is replaced by the
\* selected command
complete_command(a, t) ==
    LET f == get_filtered_commands(a) IN
    IF ~a.show_command_menu THEN Ok(a)
    ELSE IF f.panic THEN Panic(a)
    ELSE IF f.val = <<>> THEN Ok(a)
    ELSE LET a1 == save_to_undo(a, TRUE, t)
             selected_command ==
                 f.val[(a.command_menu_selected % Len(f.val)) + 1]
             k == chars_before(a.input, a.cursor_position)
             w == rfind_whitespace(a.input, k)
             cmd_start == str_len(SubSeq(a.input, 1, w))
         IN Ok([a1 EXCEPT
                  !.input = SubSeq(a.input, 1, w) \o selected_command
                              \o SubSeq(a.input, k + 1, Len(a.input)),
                  !.cursor_position = cmd_start + str_len(selected_command),
                  !.show_command_menu = FALSE,
                  !.command_menu_selected = 0])

\* the arms of App::handle_event that edit the input or move the cursor and
\* then call update_command_menu
edit_key(a, key, t) ==
    LET forced == IF key.kind = "Char"
                  THEN is_whitespace(key.c) \/ is_ascii_punctuation(key.c)
                  ELSE TRUE
        a1 == IF key.kind \in {"Char", "Backspace", "Delete"}
              THEN save_to_undo(a, forced, t) ELSE a
        s == input_fields(a1)
        r == CASE key.kind = "Char" -> insert_char(s, key.c)
               [] key.kind = "Backspace" -> delete_char_before(s)
               [] key.kind = "Delete" -> delete_char_after(s)
               [] key.kind = "Left" -> Ok(move_cursor_left(s, FALSE))
               [] key.kind = "ShiftLeft" -> Ok(move_cursor_left(s, TRUE))
               [] key.kind = "Right" -> Ok(move_cursor_right(s, FALSE))
               [] key.kind = "ShiftRight" -> Ok(move_cursor_right(s, TRUE))
    IN IF r.panic THEN Panic(a)
       ELSE update_command_menu(set_input_fields(a1, r.val))

\* the Up and Down arms of App::handle_event: the menu selection while the
\* menu is shown, the chat scroll otherwise
arrow_key(a, key) ==
    LET f == get_filtered_commands(a) IN
    IF ~a.show_command_menu THEN Ok([a EXCEPT !.auto_scroll = FALSE])
    ELSE IF f.panic THEN Panic(a)
    ELSE IF key.kind = "Up"
    THEN Ok(IF f.val # <<>>
            THEN [a EXCEPT !.command_menu_selected =
                              saturating_sub(a.command_menu_selected, 1)]
            ELSE a)
    ELSE Ok(IF f.val # <<>> /\ a.command_menu_selected < Len(f.val) - 1
            THEN [a EXCEPT !.command_menu_selected =
                              a.command_menu_selected + 1]
            ELSE a)

\* App::handle_event at Instant t, for the keys of the model.  In Config
\* mode the keys go to the ConfigEditor, whose state is not modelled.
handle_event(a, key, t) ==
    IF key.kind = "Timeout" \/ a.mode = "Config" THEN Ok(a)
    ELSE CASE key.kind = "CtrlC" -> Ok([a EXCEPT !.should_quit = TRUE])
           [] key.kind = "Enter" -> Ok([a EXCEPT !.submit = TRUE])
           [] key.kind = "CtrlA" ->
                Ok([a EXCEPT !.selection_start = Some(0),
                             !.cursor_position = str_len(a.input)])
           [] key.kind = "CtrlZ" -> App_undo(a)
           [] key.kind = "CtrlD" ->
                IF a.input = <<>> THEN Ok([a EXCEPT !.should_quit = TRUE])
                ELSE update_command_menu(
                       [save_to_undo(a, TRUE, t) EXCEPT
                          !.input = <<>>, !.cursor_position = 0,
                          !.selection_start = None])
           [] key.kind \in {"Up", "Down"} -> arrow_key(a, key)
           [] key.kind = "Tab" -> complete_command(a, t)
           [] OTHER -> edit_key(a, key, t)

RECURSIVE replace_now(_)
\* str::replace("/now", formatted); the timestamp is one token
replace_now(t) ==
    IF Len(t) < 4 THEN t
    ELSE IF SubSeq(t, 1, 4) = <<"/", "n", "o", "w">>
    THEN <<"%Y-%m-%d %H:%M:%S">> \o replace_now(SubSeq(t, 5, Len(t)))
    ELSE <<Head(t)>> \o replace_now(Tail(t))

\* App::expand_now_command
expand_now_command(input) == replace_now(input)

\* the mutant of take_input that keeps the undo history of the line it takes
take_input_keeps_undo(a) ==
    IF ~a.submit THEN [app |-> a, ret |-> None]
    ELSE IF a.input = <<>> THEN [app |-> [a EXCEPT !.submit = FALSE], ret |-> None]
    ELSE [app |-> [a EXCEPT !.submit = FALSE, !.input = <<>>,
                            !.cursor_position = 0, !.selection_start = None,
                            !.show_command_menu = FALSE,
                            !.command_menu_selected = 0],
          ret |-> Some(expand_now_command(a.input))]

\* the mutant of take_input that leaves the submit flag set on an empty buffer
take_input_keeps_submit(a) ==
    IF ~a.submit THEN [app |-> a, ret |-> None]
    ELSE IF a.input = <<>> THEN [app |-> a, ret |-> None]
    ELSE [app |-> [a EXCEPT !.submit = FALSE, !.input = <<>>,
                            !.cursor_position = 0, !.selection_start = None,
                            !.show_command_menu = FALSE,
                            !.command_menu_selected = 0,
                            !.undo_history = << <<<<>>, 0>> >>,
                            !.undo_position = 0],
          ret |-> Some(expand_now_command(a.input))]

\* App::take_input
take_input(a) ==
    IF ~a.submit THEN [app |-> a, ret |-> None]
    ELSE IF a.input = <<>> THEN [app |-> [a EXCEPT !.submit = FALSE], ret |-> None]
    ELSE [app |-> [a EXCEPT !.submit = FALSE, !.input = <<>>,
                            !.cursor_position = 0, !.selection_start = None,
                            !.show_command_menu = FALSE,
                            !.command_menu_selected = 0,
                            !.undo_history = << <<<<>>, 0>> >>,
                            !.undo_position = 0],
          ret |-> Some(expand_now_command(a.input))]

\* App::handle_command: the new App and the response to append, if any.
\* save_conversation_log writes a file; both of its outcomes give a response.
handle_command(a, cmd) ==
    IF cmd = <<"/", "c", "o", "n", "f", "i", "g">>
    THEN [app |-> [a EXCEPT !.mode = "Config"], ret |-> None]
    ELSE IF cmd = <<"/", "s", "a", "v", "e">>
    THEN [app |-> a, ret |-> Some(<<"Conversation saved to / Failed to save">>)]
    ELSE IF cmd = <<"/", "h", "e", "l", "p">>
    THEN [app |-> a, ret |-> Some(<<"Commands: ...">>)]
    ELSE [app |-> a, ret |-> None]

\* App::update_last_message(f), f given as the event it applies: the latest
\* assistant message is changed in place
update_last_message(a, ev) ==
    LET idx == {i \in 1..Len(a.messages) : a.messages[i].role = "Assistant"}
    IN IF idx = {} THEN a
       ELSE LET n == CHOOSE i \in idx : \A j \in idx : j <= i
                m == a.messages[n]
            IN [a EXCEPT !.messages[n] =
                  CASE ev.kind = "ThinkingChunk" -> append_thinking(m, ev.text)
                    [] ev.kind = "ContentChunk" -> append_content(m, ev.text)
                    [] ev.kind = "Done" -> finish_streaming(m)
                    [] ev.kind = "Error" ->
                         finish_streaming(
                           append_content(m, <<"\n\nError: ">> \o ev.text))
                    [] OTHER -> m]

(***************************************************************************)
(* Inputs of the model.                                                    *)
(***************************************************************************)
\* chars typed into a TextInputState: one ASCII, one 2-byte, one 3-byte
Chars == {"a", "U+00E9", "U+4E2D"}

\* the clock advances by one of these between two calls
TimeSteps == {0, 250}

\* buffer states handed to UndoManager::save; the last two differ in the
\* selection only
SavedStates ==
    { TextInputState_new,
      [text |-> <<"a">>, cursor_position |-> 1, selection_start |-> None],
      [text |-> <<"a", "a">>, cursor_position |-> 2, selection_start |-> None],
      [text |-> <<"a", "a">>, cursor_position |-> 2, selection_start |-> Some(0)] }

\* the pieces backend replies are made of: the two markers, ASCII text and
\* multi-byte text
Segments == { THINKING_OPEN, THINKING_CLOSE, <<"h", "i", " ">>,
              <<"U+00E9", "U+4E2D">> }

RECURSIVE Joined(_)
\* the concatenations of at most k segments
Joined(k) == IF k = 0 THEN {<<>>}
             ELSE Joined(k - 1) \cup {r \o g : r \in Joined(k - 1), g \in Segments}

\* "hello <thinking>planning</thinking> world"
ExampleReply ==
    <<"h", "e", "l", "l", "o", " ">> \o THINKING_OPEN
    \o <<"p", "l", "a", "n", "n", "i", "n", "g">> \o THINKING_CLOSE
    \o <<" ", "w", "o", "r", "l", "d">>

Replies == Joined(MaxSegments) \cup {ExampleReply}

(***************************************************************************)
(* Initial values of the components a specification does not exercise.     *)
(***************************************************************************)
TextInit == input_state = TextInputState_new

\* a call of an UndoManager method on um: whether snapshots lay after the
\* position
UndoCall(op, force, um) ==
    [op |-> op, force |-> force,
     redo_tail |-> um.position + 1 < Len(um.history)]

NoUndoCall == [op |-> "new", force |-> FALSE, redo_tail |-> FALSE]

UndoInit == /\ undo_manager = UndoManager_new(0)
            /\ undo_result = None
            /\ undo_call = NoUndoCall
            /\ walk = [saves |-> 0, undos |-> 0, strict |-> TRUE]

ScrollInit == /\ scroll_manager = ScrollManager_new
              /\ overflow_checks = FALSE
              /\ scroll_call = NoScrollCall

DecodeInit == /\ backend = BackendErr
              /\ decoder = Decoder_start
              /\ stream = [open |-> TRUE, queue |-> <<>>]
              /\ emitted = <<>>

SessionInit == /\ app = App_new
               /\ agent = TRUE
               /\ tasks = <<>>
               /\ rx = [open |-> TRUE, queue |-> <<>>]
               /\ applied = <<>>
               /\ last_key = Key("Timeout", "")
               /\ key_count = 0

(***************************************************************************)
(* SpecTextInput: every sequence of TextInputState operations.             *)
(***************************************************************************)
InitTextInput == /\ TextInit /\ UndoInit /\ ScrollInit /\ DecodeInit /\ SessionInit
                 /\ panicked = FALSE
                 /\ now = 0

\* applies the outcome r of a fallible operation
TextOutcome(r) == /\ panicked' = r.panic
                  /\ input_state' = IF r.panic THEN input_state ELSE r.val
                  /\ UNCHANGED <<undoVars, scrollVars, decodeVars, sessionVars, now>>

TextInsertChar ==
    /\ ~panicked
    /\ Len(input_state.text) < MaxTextChars
    /\ \E c \in Chars : TextOutcome(insert_char(input_state, c))

TextDeleteCharBefore == ~panicked /\ TextOutcome(delete_char_before(input_state))

TextDeleteCharAfter == ~panicked /\ TextOutcome(delete_char_after(input_state))

TextMoveCursorLeft ==
    /\ ~panicked
    /\ \E ws \in BOOLEAN : TextOutcome(Ok(move_cursor_left(input_state, ws)))

TextMoveCursorRight ==
    /\ ~panicked
    /\ \E ws \in BOOLEAN : TextOutcome(Ok(move_cursor_right(input_state, ws)))

TextSelectAll == ~panicked /\ TextOutcome(Ok(select_all(input_state)))

TextClear == ~panicked /\ TextOutcome(Ok(clear(input_state)))

TextTakeText == ~panicked /\ TextOutcome(Ok(take_text(input_state)))

NextTextInput ==
    \/ TextInsertChar
    \/ TextDeleteCharBefore
    \/ TextDeleteCharAfter
    \/ TextMoveCursorLeft
    \/ TextMoveCursorRight
    \/ TextSelectAll
    \/ TextClear
    \/ TextTakeText

SpecTextInput == InitTextInput /\ [][NextTextInput]_vars

\* C1: after any sequence of insert, delete, move, select_all, clear and take
\* operations, multi-byte inserts included, 0 <= cursor <= length(text) and
\* the cursor is a char boundary of the text.
C1_CursorOnCharBoundary ==
    /\ 0 <= input_state.cursor_position
    /\ input_state.cursor_position <= str_len(input_state.text)
    /\ is_char_boundary(input_state.text, input_state.cursor_position)

\* the chars of t between the char boundaries (byte offsets) i and j
byte_slice(t, i, j) == SubSeq(t, chars_before(t, i) + 1, chars_before(t, j))

\* the cursor and the selection anchor of s are char boundaries of its text
OnBoundaries(s) ==
    /\ is_char_boundary(s.text, s.cursor_position)
    /\ s.selection_start.is_some => is_char_boundary(s.text, s.selection_start.v)

\* what C22 says insert(c) makes of the buffer old: new is the buffer and
\* failed tells whether the call panicked
InsertEffect(old, c, new, failed) ==
    LET sel == selection_range(old)
        st == IF sel.is_some THEN sel.v[1] ELSE old.cursor_position
        en == IF sel.is_some THEN sel.v[2] ELSE old.cursor_position
    IN /\ ~failed
       /\ new.text = byte_slice(old.text, 0, st) \o <<c>>
                       \o byte_slice(old.text, en, str_len(old.text))
       /\ new.cursor_position = st + len_utf8(c)
       /\ new.selection_start = None

\* C22: insert(c) with a selection [s, e) yields old_text[0..s] + c +
\* old_text[e..], the cursor one character after s and no selection; with no
\* selection it inserts c at the cursor and advances the cursor by one
\* character.
C22_InsertAdvancesOneChar ==
    [][\A c \in Chars :
         (/\ ~panicked /\ OnBoundaries(input_state)
          /\ Len(input_state.text) < MaxTextChars
          /\ TextOutcome(insert_char(input_state, c)))
         => InsertEffect(input_state, c, input_state', panicked')]_vars

\* what C23 says delete_before (before = TRUE) or delete_after makes of old
DeleteEffect(old, before, new, failed) ==
    LET sel == selection_range(old)
        k == chars_before(old.text, old.cursor_position)
    IN /\ ~failed
       /\ IF sel.is_some
          THEN /\ new.text = byte_slice(old.text, 0, sel.v[1])
                               \o byte_slice(old.text, sel.v[2], str_len(old.text))
               /\ new.cursor_position = sel.v[1]
               /\ new.selection_start = None
          ELSE IF before
          THEN IF old.cursor_position = 0 THEN new = old
               ELSE new.text = SubSeq(old.text, 1, k - 1)
                                 \o SubSeq(old.text, k + 1, Len(old.text))
          ELSE IF old.cursor_position = str_len(old.text) THEN new = old
               ELSE new.text = SubSeq(old.text, 1, k)
                                 \o SubSeq(old.text, k + 2, Len(old.text))

\* C23: delete_before and delete_after never fail; with a selection [s, e)
\* they remove that range, set cursor = s and clear the selection; without
\* one they remove the one character before (resp. at) the cursor, and at the
\* boundary they change nothing.
C23_DeleteNeverFails ==
    [][/\ (/\ ~panicked /\ OnBoundaries(input_state)
           /\ TextOutcome(delete_char_before(input_state)))
          => DeleteEffect(input_state, TRUE, input_state', panicked')
       /\ (/\ ~panicked /\ OnBoundaries(input_state)
           /\ TextOutcome(delete_char_after(input_state)))
          => DeleteEffect(input_state, FALSE, input_state', panicked')]_vars

\* what C24 says move_left (left = TRUE) or move_right makes of old
MoveEffect(old, left, extend, new) ==
    LET k == chars_before(old.text, old.cursor_position)
        one == IF left
               THEN char_offset(old.text, IF k > 0 THEN k - 1 ELSE 0)
               ELSE char_offset(old.text,
                                IF k < Len(old.text) THEN k + 1 ELSE k)
        sel == selection_range(old)
    IN /\ new.text = old.text
       /\ IF extend
          THEN /\ new.selection_start = IF old.selection_start.is_some
                                        THEN old.selection_start
                                        ELSE Some(old.cursor_position)
               /\ new.cursor_position = one
          ELSE IF sel.is_some
          THEN /\ new.cursor_position = IF left THEN sel.v[1] ELSE sel.v[2]
               /\ new.selection_start = None
          ELSE /\ new.cursor_position = one
               /\ new.selection_start = None

\* C24: move_left and move_right never change the text; an extending move
\* sets the anchor to the pre-move cursor when there is none, keeps it
\* otherwise, and moves the cursor one character with clamping; a plain move
\* with a selection puts the cursor on min (left) or max (right) of anchor
\* and cursor and clears the selection; a plain move without one moves the
\* cursor one character with clamping.
C24_MoveOneChar ==
    [][\A ws \in BOOLEAN :
         /\ (/\ ~panicked /\ OnBoundaries(input_state)
             /\ TextOutcome(Ok(move_cursor_left(input_state, ws))))
            => MoveEffect(input_state, TRUE, ws, input_state')
         /\ (/\ ~panicked /\ OnBoundaries(input_state)
             /\ TextOutcome(Ok(move_cursor_right(input_state, ws))))
            => MoveEffect(input_state, FALSE, ws, input_state')]_vars

(***************************************************************************)
(* SpecUndo: every sequence of UndoManager calls, the clock advancing      *)
(* between them.  walk counts the calls since new()/clear(): saves forced  *)
(* saves of a state that differs from the last saved one, then undos       *)
(* undo calls; strict is FALSE once any other call was made.               *)
(***************************************************************************)
InitUndo == InitTextInput

NoWalk == [saves |-> 0, undos |-> 0, strict |-> FALSE]

Tick ==
    /\ ~panicked
    /\ \E dt \in TimeSteps : dt > 0 /\ now + dt <= MaxTime /\ now' = now + dt
    /\ UNCHANGED <<textVars, scrollVars, decodeVars, sessionVars, undoVars, panicked>>

UndoSave ==
    /\ ~panicked
    /\ \E state \in SavedStates, force \in BOOLEAN :
          /\ undo_manager' = UndoManager_save(undo_manager, state, force, now)
          /\ walk' = IF /\ walk.strict /\ walk.undos = 0 /\ force
                        /\ walk.saves <= MAX_UNDO_HISTORY
                        /\ state # undo_manager.history[Len(undo_manager.history)]
                     THEN [walk EXCEPT !.saves = walk.saves + 1]
                     ELSE NoWalk
          /\ undo_call' = UndoCall("save", force, undo_manager)
    /\ UNCHANGED <<textVars, scrollVars, decodeVars, sessionVars, undo_result, now, panicked>>

UndoUndo ==
    /\ ~panicked
    /\ LET r == UndoManager_undo(undo_manager)
       IN /\ undo_manager' = r.um
          /\ undo_result' = r.ret
    /\ walk' = IF walk.strict /\ walk.undos < walk.saves
               THEN [walk EXCEPT !.undos = walk.undos + 1]
               ELSE NoWalk
    /\ undo_call' = UndoCall("undo", FALSE, undo_manager)
    /\ UNCHANGED <<textVars, scrollVars, decodeVars, sessionVars, now, panicked>>

UndoClear ==
    /\ ~panicked
    /\ undo_manager' = UndoManager_clear(undo_manager, now)
    /\ walk' = [saves |-> 0, undos |-> 0, strict |-> TRUE]
    /\ undo_call' = UndoCall("clear", FALSE, undo_manager)
    /\ UNCHANGED <<textVars, scrollVars, decodeVars, sessionVars, undo_result, now, panicked>>

NextUndo == Tick \/ UndoSave \/ UndoUndo \/ UndoClear

SpecUndo == InitUndo /\ [][NextUndo]_vars

\* C6 as stated: from a fresh history, after n forced saves of states that
\* each differ from the previously saved one, n undos each return a
\* snapshot and the n-th returns the initial empty one, for every
\* n <= capacity.
C6_UndoWalkUpToCapacity ==
    (walk.strict /\ 1 <= walk.undos /\ walk.undos <= walk.saves
       /\ walk.saves <= MAX_UNDO_HISTORY)
    => /\ undo_result.is_some
       /\ walk.undos = walk.saves => undo_result.v = TextInputState_new

\* C6 amended: the same for every n <= capacity - 1 (the initial snapshot
\* counts against the capacity; the capacity-th save evicts it).
C6_UndoWalkBelowCapacity ==
    (walk.strict /\ 1 <= walk.undos /\ walk.undos <= walk.saves
       /\ walk.saves <= MAX_UNDO_HISTORY - 1)
    => /\ undo_result.is_some
       /\ walk.undos = walk.saves => undo_result.v = TextInputState_new

\* C6 witness: capacity - 1 forced saves, then as many undos, back at the
\* initial snapshot.
C6_Witness ==
    /\ walk.strict
    /\ walk.saves = MAX_UNDO_HISTORY - 1
    /\ walk.undos = walk.saves
    /\ undo_result = Some(TextInputState_new)
    /\ undo_manager.position = 0

\* C7: the history holds between 1 and capacity snapshots and
\* position < length(history); a save that would exceed the capacity evicts
\* the oldest snapshot and leaves position on the snapshot just saved.
C7_HistoryBounded ==
    /\ [](/\ 1 <= Len(undo_manager.history)
          /\ Len(undo_manager.history) <= MAX_UNDO_HISTORY
          /\ undo_manager.position < Len(undo_manager.history))
    /\ [][(/\ Len(undo_manager.history) = MAX_UNDO_HISTORY
           /\ undo_manager.position = MAX_UNDO_HISTORY - 1
           /\ undo_manager'.history # undo_manager.history
           /\ undo_manager'.history # <<TextInputState_new>>)
          => /\ Len(undo_manager'.history) = MAX_UNDO_HISTORY
             /\ SubSeq(undo_manager'.history, 1, MAX_UNDO_HISTORY - 1)
                  = Tail(undo_manager.history)
             /\ undo_manager'.position = MAX_UNDO_HISTORY - 1
             /\ undo_manager'.history[undo_manager'.position + 1]
                  # undo_manager.history[MAX_UNDO_HISTORY]]_vars

\* C7 witness: the history is full and its oldest entry is no longer the
\* initial empty snapshot, so a save has evicted; position is on the last.
C7_Witness ==
    /\ Len(undo_manager.history) = MAX_UNDO_HISTORY
    /\ undo_manager.history[1] # TextInputState_new
    /\ undo_manager.position = MAX_UNDO_HISTORY - 1

\* C20: the undo history never holds two adjacent snapshots with the same
\* (text, cursor) pair.
C20_NoAdjacentDuplicates ==
    \A i \in 1..(Len(undo_manager.history) - 1) :
        <<undo_manager.history[i].text,
          undo_manager.history[i].cursor_position>>
          # <<undo_manager.history[i + 1].text,
              undo_manager.history[i + 1].cursor_position>>

\* C21: undo() at position 0 returns nothing and leaves history, position
\* and the buffer unchanged; at a position > 0 it decrements position by
\* exactly one, returns the snapshot stored at the new position and leaves
\* the history contents unchanged.
C21_UndoFrameEffect ==
    [][UndoUndo =>
         IF undo_manager.position = 0
         THEN /\ undo_result' = None
              /\ undo_manager' = undo_manager
              /\ input_state' = input_state
         ELSE /\ undo_manager'.position = undo_manager.position - 1
              /\ undo_result' =
                   Some(undo_manager.history[undo_manager'.position + 1])
              /\ undo_manager'.history = undo_manager.history]_vars

\* C21 witness: an undo has stepped back from the last snapshot of a history
\* of at least three, so snapshots on both sides of the position are kept.
C21_Witness ==
    /\ Len(undo_manager.history) >= 3
    /\ undo_manager.position = Len(undo_manager.history) - 2
    /\ undo_result = Some(undo_manager.history[undo_manager.position + 1])

\* C25: a forced save at position p after one or more undos discards every
\* snapshot after index p, appends the saved state if it differs from
\* history[p], and leaves position on the last index of the history.
C25_ForcedSaveTruncatesFuture ==
    [][\A state \in SavedStates :
         (/\ undo_manager.position + 1 < Len(undo_manager.history)
          /\ undo_call' = UndoCall("save", TRUE, undo_manager)
          /\ undo_manager' = UndoManager_save(undo_manager, state, TRUE, now))
         => LET kept == SubSeq(undo_manager.history, 1,
                               undo_manager.position + 1)
            IN /\ undo_manager'.history =
                    IF state # undo_manager.history[undo_manager.position + 1]
                    THEN Append(kept, state) ELSE kept
               /\ undo_manager'.position = Len(undo_manager'.history) - 1]_vars

\* C25 witness: a forced save found snapshots after the position, was the
\* last call, and pushed its state: position is on the last of two or more.
C25_Witness ==
    /\ undo_call.op = "save" /\ undo_call.force /\ undo_call.redo_tail
    /\ Len(undo_manager.history) >= 2
    /\ undo_manager.position = Len(undo_manager.history) - 1
    /\ undo_result.is_some

\* C26: a non-forced save issued when no more than the grouping interval has
\* elapsed since the last performed save changes nothing: history, position
\* and the last-save timestamp are unchanged.
C26_SaveWithinIntervalIsNoOp ==
    [][\A state \in SavedStates :
         (/\ now - undo_manager.last_save_time <= UNDO_GROUP_INTERVAL_MS
          /\ undo_call' = UndoCall("save", FALSE, undo_manager)
          /\ undo_manager' = UndoManager_save(undo_manager, state, FALSE, now))
         => undo_manager' = undo_manager]_vars

\* C26 witness: the last call was a non-forced save exactly one interval
\* after the last performed save, made while snapshots lay after the
\* position; they still do and the timestamp still lies one interval back.
C26_Witness ==
    /\ undo_call.op = "save" /\ ~undo_call.force /\ undo_call.redo_tail
    /\ now - undo_manager.last_save_time = UNDO_GROUP_INTERVAL_MS
    /\ undo_manager.position + 1 < Len(undo_manager.history)

(***************************************************************************)
(* SpecScroll: every sequence of ScrollManager calls, in a debug or a      *)
(* release build.                                                          *)
(***************************************************************************)
InitScroll ==
    /\ TextInit /\ UndoInit /\ DecodeInit /\ SessionInit
    /\ panicked = FALSE
    /\ now = 0
    /\ scroll_manager = ScrollManager_new
    /\ overflow_checks \in BOOLEAN
    /\ scroll_call = NoScrollCall

\* a call that cannot fail: its effect and its record
ScrollDo(op, sm) ==
    /\ ~panicked
    /\ scroll_manager' = sm
    /\ scroll_call' = ScrollCall(op, 0, 0, 0, scroll_manager.position)
    /\ UNCHANGED <<textVars, undoVars, decodeVars, sessionVars, now, panicked, overflow_checks>>

ScrollToTop == ScrollDo("scroll_to_top", scroll_to_top(scroll_manager))

ScrollToBottom == ScrollDo("scroll_to_bottom", scroll_to_bottom(scroll_manager))

EnableAutoScroll == ScrollDo("enable_auto_scroll", scroll_to_bottom(scroll_manager))

ScrollUp == ScrollDo("scroll_up", scroll_up(scroll_manager, 1))

ScrollDown ==
    /\ scroll_manager.position + 1 <= MaxScroll
    /\ ScrollDo("scroll_down", scroll_down(scroll_manager, 1))

ScrollPageUp ==
    ScrollDo("scroll_page_up", scroll_up(scroll_manager, SCROLL_PAGE_AMOUNT))

ScrollPageDown ==
    /\ scroll_manager.position + SCROLL_PAGE_AMOUNT <= MaxScroll
    /\ ScrollDo("scroll_page_down", scroll_down(scroll_manager, SCROLL_PAGE_AMOUNT))

ScrollReset == ScrollDo("reset", ScrollManager_reset(scroll_manager))

ScrollUpdate ==
    /\ ~panicked
    /\ \E n \in 0..MaxContent, h \in 0..MaxViewport :
          /\ scroll_manager' = ScrollManager_update(scroll_manager, n, h)
          /\ scroll_call' = ScrollCall("update", 0, h, n, scroll_manager.position)
    /\ UNCHANGED <<textVars, undoVars, decodeVars, sessionVars, now, panicked, overflow_checks>>

ScrollEnsureVisible ==
    /\ ~panicked
    /\ \E line \in 0..MaxContent, n \in 0..MaxContent, h \in 0..MaxViewport :
          LET r == ensure_visible(scroll_manager, line, h, n, overflow_checks)
          IN /\ panicked' = r.panic
             /\ scroll_manager' = r.val
             /\ scroll_call' = ScrollCall("ensure_visible", line, h, n,
                                          scroll_manager.position)
    /\ UNCHANGED <<textVars, undoVars, decodeVars, sessionVars, now, overflow_checks>>

NextScroll ==
    \/ ScrollToTop \/ ScrollToBottom \/ EnableAutoScroll
    \/ ScrollUp \/ ScrollDown \/ ScrollPageUp \/ ScrollPageDown
    \/ ScrollReset \/ ScrollUpdate \/ ScrollEnsureVisible

SpecScroll == InitScroll /\ [][NextScroll]_vars

\* C10 as stated: for every position, line, h and n with n >= h,
\* ensure_visible(line, h, n) leaves position <= line < position + h; for
\* n < h it leaves position = 0; it never fails.
C10_EnsureVisibleAnyLine ==
    scroll_call.op = "ensure_visible"
    => /\ ~panicked
       /\ scroll_call.content_length >= scroll_call.viewport_height
            => /\ scroll_manager.position <= scroll_call.line
               /\ scroll_call.line < scroll_manager.position
                                       + scroll_call.viewport_height
       /\ scroll_call.content_length < scroll_call.viewport_height
            => scroll_manager.position = 0

\* what ensure_visible does guarantee (C10 restricted): the same for a
\* target line inside the content (line < n) and a viewport of at least one
\* line (h >= 1).
C10_EnsureVisibleLineInContent ==
    (scroll_call.op = "ensure_visible" /\ scroll_call.viewport_height >= 1)
    => /\ ~panicked
       /\ (/\ scroll_call.content_length >= scroll_call.viewport_height
           /\ scroll_call.line < scroll_call.content_length)
            => /\ scroll_manager.position <= scroll_call.line
               /\ scroll_call.line < scroll_manager.position
                                       + scroll_call.viewport_height
       /\ scroll_call.content_length < scroll_call.viewport_height
            => scroll_manager.position = 0

\* C10 witness: a call from a position above the target window that had
\* to move the window down, with the content longer than the viewport.
C10_Witness ==
    /\ scroll_call.op = "ensure_visible"
    /\ scroll_call.viewport_height >= 2
    /\ scroll_call.content_length > scroll_call.viewport_height
    /\ scroll_call.line < scroll_call.content_length
    /\ scroll_call.line >= scroll_call.before + scroll_call.viewport_height
    /\ scroll_manager.position = scroll_call.line - scroll_call.viewport_height + 1

\* the manual scroll actions
ManualScrollOps ==
    {"scroll_to_top", "scroll_up", "scroll_down", "scroll_page_up",
     "scroll_page_down"}

\* C11: after every update(content_length, viewport_height) made while
\* auto-follow is off, position <= max(0, content_length - viewport_height).
C11_ManualPositionInRange ==
    (scroll_call.op = "update" /\ ~scroll_manager.auto_scroll)
    => scroll_manager.position
         <= saturating_sub(scroll_call.content_length,
                           scroll_call.viewport_height)

\* C18: every manual scroll action (line up/down, page up/down, home)
\* leaves auto-follow off whatever it was before, and the end/bottom action
\* leaves it on.
C18_ManualScrollClearsFollow ==
    [][/\ scroll_call'.op \in ManualScrollOps
            => ~scroll_manager'.auto_scroll
       /\ scroll_call'.op \in {"scroll_to_bottom", "enable_auto_scroll"}
            => scroll_manager'.auto_scroll]_vars

\* C18 witness: a line up that found the position above 0, and the state
\* after it with auto-follow off
C18_Witness ==
    /\ scroll_call.op = "scroll_up"
    /\ scroll_call.before >= 1
    /\ scroll_manager.position = scroll_call.before - 1
    /\ ~scroll_manager.auto_scroll

\* C19: an update made while auto-follow is on sets position to
\* max(0, content_length - viewport_height) whatever the position was, and
\* auto-follow goes off only by a manual scroll action.
C19_FollowPinsToBottom ==
    [][/\ (scroll_manager.auto_scroll /\ scroll_call'.op = "update")
            => /\ scroll_manager'.position
                    = saturating_sub(scroll_call'.content_length,
                                     scroll_call'.viewport_height)
               /\ scroll_manager'.auto_scroll
       /\ (scroll_manager.auto_scroll /\ ~scroll_manager'.auto_scroll)
            => scroll_call'.op \in ManualScrollOps]_vars

\* C19 witness: an update in auto-follow that moved the position to the
\* bottom of a content longer than the viewport
C19_Witness ==
    /\ scroll_call.op = "update"
    /\ scroll_manager.auto_scroll
    /\ scroll_call.content_length > scroll_call.viewport_height
    /\ scroll_call.viewport_height >= 1
    /\ scroll_call.before # scroll_manager.position
    /\ scroll_manager.position
         = scroll_call.content_length - scroll_call.viewport_height

(***************************************************************************)
(* SpecDecode: one run of send_stream on any reply or a backend error,     *)
(* the receiver of its channel being dropped at any moment.                *)
(***************************************************************************)
InitDecode ==
    /\ TextInit /\ UndoInit /\ ScrollInit /\ SessionInit
    /\ panicked = FALSE
    /\ now = 0
    /\ backend \in {BackendErr} \cup {BackendOk(r) : r \in Replies}
    /\ decoder = Decoder_start
    /\ stream = [open |-> TRUE, queue |-> <<>>]
    /\ emitted = <<>>

DecodePrompt ==
    /\ decoder.pc = "prompt"
    /\ decoder' = decode_prompt(decoder, backend)
    /\ UNCHANGED <<textVars, undoVars, scrollVars, sessionVars, now, panicked,
                   backend, stream, emitted>>

DecodeChar ==
    /\ decoder.pc = "loop"
    /\ LET r == decode_char(decoder, stream.open)
       IN /\ decoder' = r.d
          /\ stream' = channel_send(stream, r.sends)
          /\ emitted' = emitted \o r.sends
    /\ UNCHANGED <<textVars, undoVars, scrollVars, sessionVars, now, panicked, backend>>

DecodeTail ==
    /\ decoder.pc = "tail"
    /\ LET r == decode_tail(decoder)
       IN /\ decoder' = r.d
          /\ stream' = channel_send(stream, r.sends)
          /\ emitted' = emitted \o r.sends
    /\ UNCHANGED <<textVars, undoVars, scrollVars, sessionVars, now, panicked, backend>>

\* the receiving end of the channel is dropped
SinkClose ==
    /\ stream.open
    /\ stream' = [stream EXCEPT !.open = FALSE]
    /\ UNCHANGED <<textVars, undoVars, scrollVars, sessionVars, now, panicked,
                   backend, decoder, emitted>>

NextDecode == DecodePrompt \/ DecodeChar \/ DecodeTail \/ SinkClose

SpecDecode == InitDecode /\ [][NextDecode]_vars

RECURSIVE Payload(_, _)
\* the concatenation, in order, of the payloads of the events of kind k
Payload(evs, k) ==
    IF evs = <<>> THEN <<>>
    ELSE (IF Head(evs).kind = k THEN Head(evs).text ELSE <<>>)
         \o Payload(Tail(evs), k)

\* the events i..j of evs are all of kind k
AllOfKind(evs, i, j, k) == \A n \in i..j : evs[n].kind = k

IsTerminal(e) == e.kind \in {"Done", "Error"}

\* C3: on "hello <thinking>planning</thinking> world" the decoder emits
\* ContentChunks making "hello ", ThinkingStart, ThinkingChunks making
\* "planning", ThinkingEnd, ContentChunks making " world", then Done; no
\* marker text is in any payload.
C3_ExampleThinkingSplit ==
    (backend = BackendOk(ExampleReply) /\ decoder.pc = "returned" /\ stream.open)
    => \E i, j \in 1..Len(emitted) :
          /\ i < j /\ j < Len(emitted)
          /\ AllOfKind(emitted, 1, i - 1, "ContentChunk")
          /\ emitted[i].kind = "ThinkingStart"
          /\ AllOfKind(emitted, i + 1, j - 1, "ThinkingChunk")
          /\ emitted[j].kind = "ThinkingEnd"
          /\ AllOfKind(emitted, j + 1, Len(emitted) - 1, "ContentChunk")
          /\ emitted[Len(emitted)].kind = "Done"
          /\ Payload(SubSeq(emitted, 1, i - 1), "ContentChunk")
               = <<"h", "e", "l", "l", "o", " ">>
          /\ Payload(emitted, "ThinkingChunk")
               = <<"p", "l", "a", "n", "n", "i", "n", "g">>
          /\ Payload(SubSeq(emitted, j + 1, Len(emitted)), "ContentChunk")
               = <<" ", "w", "o", "r", "l", "d">>

\* C5: in every decode run each ThinkingChunk and ThinkingEnd is preceded by
\* a ThinkingStart; no event follows a terminal event and a finished run has
\* emitted exactly one, as its last event; and the step that ends the run
\* emits the residual buffer as a chunk of the current kind (followed by
\* ThinkingEnd when InThinking) and then Done.
C5_EventOrdering ==
    /\ [](/\ \A i \in 1..Len(emitted) :
               /\ emitted[i].kind \in {"ThinkingChunk", "ThinkingEnd"}
                    => \E j \in 1..(i - 1) : emitted[j].kind = "ThinkingStart"
               /\ IsTerminal(emitted[i]) => i = Len(emitted)
          /\ (decoder.pc = "returned" /\ decoder.result = "Ok")
               => /\ emitted # <<>>
                  /\ IsTerminal(emitted[Len(emitted)]))
    /\ [][(decoder.pc # "returned" /\ decoder'.pc = "returned" /\ backend.ok)
          => emitted' = emitted
                \o (IF decoder.current_chunk = <<>> THEN <<>>
                    ELSE IF decoder.in_thinking
                    THEN <<StreamEvent("ThinkingChunk", decoder.current_chunk),
                           StreamEvent("ThinkingEnd", <<>>)>>
                    ELSE <<StreamEvent("ContentChunk", decoder.current_chunk)>>)
                \o <<StreamEvent("Done", <<>>)>>]_vars

\* C5 witness: a finished run over a reply of more than one chunk whose
\* residual buffer was flushed right before Done.
C5_Witness ==
    /\ decoder.pc = "returned" /\ decoder.result = "Ok"
    /\ Len(emitted) >= 3
    /\ emitted[Len(emitted)].kind = "Done"
    /\ emitted[Len(emitted) - 1].kind = "ContentChunk"
    /\ str_len(emitted[Len(emitted) - 1].text) < FLUSH_LEN

\* send_stream never emits ThinkingStart: the rolling buffer is flushed at
\* FLUSH_LEN bytes, before it can hold a whole marker.
NeverThinking == \A i \in 1..Len(emitted) : emitted[i].kind = "ContentChunk"
                                             \/ emitted[i].kind = "Done"

\* the time one iteration of the main loop takes: none to speak of, or more
\* than the undo grouping interval
LoopTimes == {0, UNDO_GROUP_INTERVAL_MS + 100}

\* C17: with the sink closed, the loop iteration that flushes a chunk is
\* the last one (the send fails, the rest of the reply is not consumed, the
\* buffer is empty); the tail then passes Done alone to the closed sink and
\* send_stream returns Ok(()).
C17_StopsAtFlushOnClosedSink ==
    /\ [][(decoder.pc = "loop" /\ ~stream.open /\ emitted' # emitted)
            => /\ decoder'.pc = "tail"
               /\ decoder'.current_chunk = <<>>
               /\ decoder'.rest = Tail(decoder.rest)]_vars
    /\ [][(decoder.pc = "tail" /\ ~stream.open)
            => /\ decoder'.pc = "returned" /\ decoder'.result = "Ok"
               /\ decoder'.rest = decoder.rest
               /\ stream' = stream
               /\ decoder.current_chunk = <<>>
                    => emitted' = Append(emitted, StreamEvent("Done", <<>>))]_vars

\* C17 witness: a run that returned Ok with part of the reply unread, its
\* last flush having met the closed sink
C17_Witness ==
    /\ decoder.pc = "returned" /\ decoder.result = "Ok"
    /\ ~stream.open
    /\ decoder.rest # <<>>
    /\ Len(emitted) >= 2
    /\ emitted[Len(emitted)].kind = "Done"
    /\ emitted[Len(emitted) - 1].kind = "ContentChunk"
    /\ str_len(emitted[Len(emitted) - 1].text) >= FLUSH_LEN
    /\ Len(stream.queue) < Len(emitted) - 1

(***************************************************************************)
(* SpecApp: an App in chat mode fed every sequence of editing, cursor and  *)
(* command menu keys (App::handle_event on its own, no submission).        *)
(***************************************************************************)
\* the chars typed: the sigil, two letters of a keyword, a blank
MenuChars == {"/", "c", "o", " "}

MenuKeys ==
    {Key("Char", c) : c \in MenuChars}
      \cup {Key(k, "") : k \in {"Backspace", "Delete", "Left", "ShiftLeft",
                                "Right", "ShiftRight", "CtrlA", "CtrlD",
                                "CtrlZ", "Tab", "Up", "Down"}}

InitApp ==
    /\ TextInit /\ UndoInit /\ ScrollInit /\ DecodeInit /\ SessionInit
    /\ panicked = FALSE
    /\ now = 0

\* one call of handle_event in which event::read yields key
AppKey(key) ==
    /\ ~panicked /\ ~app.should_quit
    /\ key_count < MaxKeys
    /\ key.kind = "Char" => Len(app.input) < MaxMenuChars
    /\ \E dt \in LoopTimes :
          /\ now + dt <= MaxTime
          /\ now' = now + dt
          /\ LET r == handle_event(app, key, now + dt)
             IN /\ panicked' = r.panic
                /\ app' = r.val
    /\ last_key' = key
    /\ key_count' = key_count + 1
    /\ UNCHANGED <<textVars, undoVars, scrollVars, decodeVars,
                   agent, tasks, rx, applied>>

\* the mutant of submission that treats a slash command as a plain line
submission_sends_commands(a) ==
    LET ti == take_input(a) IN
    IF ~ti.ret.is_some THEN [app |-> ti.app, spawn |-> FALSE]
    ELSE LET a1 == add_message(ti.app, Message_user(ti.ret.v))
         IN IF agent
            THEN [app |-> add_message(set_processing(a1, TRUE),
                                      Message_assistant_streaming),
                  spawn |-> TRUE]
            ELSE [app |-> add_message(a1, Message_assistant(
                            <<"Please configure your API key first. ...">>)),
                  spawn |-> FALSE]

\* `if let Some(input) = app.take_input()`: the App after the submission
\* branch, and whether a task was spawned
submission(a) ==
    LET ti == take_input(a) IN
    IF ~ti.ret.is_some THEN [app |-> ti.app, spawn |-> FALSE]
    ELSE IF Head(ti.ret.v) = "/"
    THEN LET hc == handle_command(ti.app, ti.ret.v)
         IN [app |-> IF hc.ret.is_some
                     THEN add_message(hc.app, Message_assistant(hc.ret.v))
                     ELSE hc.app,
             spawn |-> FALSE]
    ELSE LET a1 == add_message(ti.app, Message_user(ti.ret.v))
         IN IF agent
            THEN [app |-> add_message(set_processing(a1, TRUE),
                                      Message_assistant_streaming),
                  spawn |-> TRUE]
            ELSE [app |-> add_message(a1, Message_assistant(
                            <<"Please configure your API key first. ...">>)),
                  spawn |-> FALSE]

\* one iteration of main's loop in which event::read yields Enter:
\* handle_event, then the submission branch on what take_input returns; the
\* tasks the branch spawns run outside the App and are left out here
AppSubmit ==
    /\ ~panicked /\ ~app.should_quit
    /\ key_count < MaxKeys
    /\ \E dt \in LoopTimes :
          /\ now + dt <= MaxTime
          /\ now' = now + dt
          /\ LET h == handle_event(app, Key("Enter", ""), now + dt)
             IN /\ panicked' = h.panic
                /\ app' = IF h.panic THEN h.val ELSE submission(h.val).app
    /\ last_key' = Key("Enter", "")
    /\ key_count' = key_count + 1
    /\ UNCHANGED <<textVars, undoVars, scrollVars, decodeVars,
                   agent, tasks, rx, applied>>

NextApp == (\E key \in MenuKeys : AppKey(key)) \/ AppSubmit

SpecApp == InitApp /\ [][NextApp]_vars

\* C21 for App::undo (Ctrl+Z): the same effect on the (text, cursor) history
\* kept by the application, whose buffer takes the returned snapshot.
C21_AppUndoFrameEffect ==
    [][(key_count' = key_count + 1 /\ last_key'.kind = "CtrlZ") =>
         IF app.undo_position = 0
         THEN app' = app /\ ~panicked'
         ELSE /\ ~panicked'
              /\ app'.undo_position = app.undo_position - 1
              /\ app'.undo_history = app.undo_history
              /\ <<app'.input, app'.cursor_position>>
                   = app.undo_history[app'.undo_position + 1]]_vars

\* the current word: the text from the nearest whitespace before the
\* cursor, or the start of the text, up to the cursor
CurrentWord ==
    LET k == chars_before(app.input, app.cursor_position)
    IN SubSeq(app.input, rfind_whitespace(app.input, k) + 1, k)

KeywordMatches(cmd) == starts_with(cmd, CurrentWord)

\* the keys that change the input line or move the cursor
EditingKeys ==
    {"Char", "Backspace", "Delete", "Left", "ShiftLeft", "Right",
     "ShiftRight", "CtrlA", "CtrlD", "CtrlZ", "Tab"}

\* C12: whenever the command menu is visible (shown with matches to draw),
\* the selected index is below the number of filtered matches.
C12_SelectedIndexInRange ==
    (~panicked /\ get_command_menu_state(app).is_some)
    => app.command_menu_selected < Len(get_filtered_commands(app).val)

C14_MenuShownIffSigilWord ==
    (~panicked /\ last_key.kind \in EditingKeys)
    => (app.show_command_menu <=> starts_with(CurrentWord, <<"/">>))

(***************************************************************************)
(* Spec: the program (onyx/src/main.rs).  The main loop owns the App and   *)
(* the receiver rx; every submission spawns a forwarding task, which       *)
(* spawns the agent task running send_stream on a channel of its own.      *)
(***************************************************************************)
\* the chars typed into the input line
InputChars == {"a", "/"}

KeyPresses == {Key("Enter", ""), Key("CtrlC", "")}
                \cup {Key("Char", c) : c \in InputChars}

\* what the backend answers a prompt with: an error, or a reply that makes
\* one flushed chunk (6 bytes) and a residue
SessionReplies ==
    { BackendErr, BackendOk(<<"U+4E2D", "U+4E2D", "a">>) }

\* the tasks tokio::spawn starts for one submission: the agent task (its
\* send_stream run and the events it has passed to stream_tx), the channel
\* (stream_tx, stream_rx) and the forwarding loop's position
Task_spawn ==
    [decoder |-> Decoder_start, backend |-> BackendErr,
     stream |-> [open |-> TRUE, queue |-> <<>>],
     emitted |-> <<>>, fwd |-> "recv"]

\* AppEvent::StreamChunk(event) of submission i
AppEvent(i, ev) == [sub |-> i, ev |-> ev]

InitSession ==
    /\ TextInit /\ UndoInit /\ ScrollInit /\ DecodeInit
    /\ panicked = FALSE
    /\ now = 0
    /\ app = App_new
    /\ agent \in BOOLEAN
    /\ tasks = <<>>
    /\ rx = [open |-> TRUE, queue |-> <<>>]
    /\ applied = <<>>
    /\ last_key = Key("Timeout", "")
    /\ key_count = 0

RECURSIVE drain(_, _)
\* `while let Ok(AppEvent::StreamChunk(chunk)) = rx.try_recv()`: the queued
\* events applied in order
drain(a, q) ==
    IF q = <<>> THEN a
    ELSE LET ev == Head(q).ev
             a1 == update_last_message(a, ev)
         IN drain(IF ev.kind \in {"Done", "Error"}
                  THEN set_processing(a1, FALSE) ELSE a1,
                  Tail(q))

\* one iteration of main's loop: draw, handle_event (key, or no key within
\* the poll timeout), the quit check, the submission branch, the drain
MainLoop(key) ==
    /\ rx.open /\ ~panicked
    /\ key.kind = "Char" => Len(app.input) < MaxInputChars
    /\ \E dt \in LoopTimes :
          /\ now + dt <= MaxTime
          /\ now' = now + dt
          /\ LET h == handle_event(app, key, now + dt)
                 sb == submission(h.val)
             IN IF h.panic
                THEN /\ panicked' = TRUE
                     /\ rx' = [rx EXCEPT !.open = FALSE]
                     /\ UNCHANGED <<app, tasks, applied>>
                ELSE IF h.val.should_quit
                THEN /\ app' = h.val
                     /\ rx' = [rx EXCEPT !.open = FALSE]
                     /\ UNCHANGED <<panicked, tasks, applied>>
                ELSE /\ app' = drain(sb.app, rx.queue)
                     /\ tasks' = IF sb.spawn THEN Append(tasks, Task_spawn)
                                 ELSE tasks
                     /\ Len(tasks') <= MaxSubmissions
                     /\ Len(app'.messages) <= MaxMessages
                     /\ applied' = applied \o rx.queue
                     /\ rx' = [rx EXCEPT !.queue = <<>>]
                     /\ UNCHANGED panicked
    /\ UNCHANGED <<textVars, undoVars, scrollVars, decodeVars, agent, last_key, key_count>>

UiKey == \E key \in KeyPresses : MainLoop(key)

UiTick == MainLoop(Key("Timeout", ""))

\* agent task i: agent.prompt(..).await returns
AgentPrompt(i) ==
    /\ tasks[i].decoder.pc = "prompt"
    /\ \E b \in SessionReplies :
          tasks' = [tasks EXCEPT ![i].backend = b,
                                 ![i].decoder = decode_prompt(tasks[i].decoder, b)]
    /\ UNCHANGED <<textVars, undoVars, scrollVars, decodeVars, now, panicked,
                   app, agent, rx, applied, last_key, key_count>>

\* agent task i: one iteration of send_stream's loop
AgentChar(i) ==
    /\ tasks[i].decoder.pc = "loop"
    /\ LET r == decode_char(tasks[i].decoder, tasks[i].stream.open)
       IN tasks' = [tasks EXCEPT
                      ![i].decoder = r.d,
                      ![i].stream = channel_send(tasks[i].stream, r.sends),
                      ![i].emitted = tasks[i].emitted \o r.sends]
    /\ UNCHANGED <<textVars, undoVars, scrollVars, decodeVars, now, panicked,
                   app, agent, rx, applied, last_key, key_count>>

\* agent task i: send_stream's tail; it returns Ok(()) and the task ends
AgentTail(i) ==
    /\ tasks[i].decoder.pc = "tail"
    /\ LET r == decode_tail(tasks[i].decoder)
       IN tasks' = [tasks EXCEPT
                      ![i].decoder = r.d,
                      ![i].stream = channel_send(tasks[i].stream, r.sends),
                      ![i].emitted = tasks[i].emitted \o r.sends]
    /\ UNCHANGED <<textVars, undoVars, scrollVars, decodeVars, now, panicked,
                   app, agent, rx, applied, last_key, key_count>>

\* forwarding task i: stream_rx.recv() yields an event, which goes to main's
\* channel; a failed send breaks the loop.  recv() never yields None: the
\* task itself holds stream_tx until it ends.
Forward(i) ==
    /\ tasks[i].fwd = "recv"
    /\ tasks[i].stream.queue # <<>>
    /\ rx' = channel_send(rx, <<AppEvent(i, Head(tasks[i].stream.queue))>>)
    /\ tasks' = [tasks EXCEPT ![i].stream.queue = Tail(tasks[i].stream.queue),
                              ![i].fwd = IF rx.open THEN "recv" ELSE "join"]
    /\ UNCHANGED <<textVars, undoVars, scrollVars, decodeVars, now, panicked,
                   app, agent, applied, last_key, key_count>>

\* forwarding task i: agent_handle.await returns and the task ends, which
\* drops stream_tx and stream_rx
ForwardJoin(i) ==
    /\ tasks[i].fwd = "join"
    /\ tasks[i].decoder.pc = "returned"
    /\ tasks' = [tasks EXCEPT ![i].fwd = "done", ![i].stream.open = FALSE]
    /\ UNCHANGED <<textVars, undoVars, scrollVars, decodeVars, now, panicked,
                   app, agent, rx, applied, last_key, key_count>>

AgentStep == \E i \in 1..Len(tasks) : AgentPrompt(i) \/ AgentChar(i) \/ AgentTail(i)

ForwardStep == \E i \in 1..Len(tasks) : Forward(i) \/ ForwardJoin(i)

Init == InitSession

Next == UiKey \/ UiTick \/ AgentStep \/ ForwardStep

Spec == Init /\ [][Next]_vars

\* the keys of a session in which slash commands are picked from the command
\* menu: the sigil and a letter typed, Down and Tab in the menu, Enter
CommandKeys ==
    {Key("Enter", ""), Key("Tab", ""), Key("Down", "")}
      \cup {Key("Char", c) : c \in InputChars}

UiCommandKey == \E key \in CommandKeys : MainLoop(key)

NextCommands == UiCommandKey \/ UiTick \/ AgentStep \/ ForwardStep

SpecCommands == Init /\ [][NextCommands]_vars

\* the tokio runtime runs every spawned task that can take a step, and the
\* main loop keeps iterating: poll returns within its timeout
FairSpec == Spec /\ WF_vars(UiTick) /\ WF_vars(AgentStep) /\ WF_vars(ForwardStep)

(***************************************************************************)
(* Claims about the session (specifications Spec and FairSpec).            *)
(***************************************************************************)
\* the events of submission i in a queue of AppEvents, in the queue's order
RECURSIVE EventsOf(_, _)
EventsOf(q, i) ==
    IF q = <<>> THEN <<>>
    ELSE IF Head(q).sub = i THEN <<Head(q).ev>> \o EventsOf(Tail(q), i)
    ELSE EventsOf(Tail(q), i)

IsPrefix(s, t) == Len(s) <= Len(t) /\ SubSeq(t, 1, Len(s)) = s

UserMessages(a) ==
    Cardinality({k \in 1..Len(a.messages) : a.messages[k].role = "User"})

StreamingMessages(a) ==
    Cardinality({k \in 1..Len(a.messages) : a.messages[k].is_streaming})

\* C2: while a reply is outstanding (the processing flag is set), no step of
\* the program appends a user message or a streaming assistant message,
\* starts a further agent task, or empties a non-empty input line: a submit
\* attempt is rejected.
C2_SubmitRejectedWhileProcessing ==
    [][app.is_processing =>
         /\ Len(tasks') = Len(tasks)
         /\ UserMessages(app') = UserMessages(app)
         /\ StreamingMessages(app') <= StreamingMessages(app)
         /\ (app.input # <<>> => app'.input # <<>>)]_vars

\* C4: a run of send_stream whose backend call failed has sent exactly one
\* event, an Error, and no chunk.
C4_BackendFailureEmitsError ==
    \A i \in 1..Len(tasks) :
        (tasks[i].decoder.pc = "returned" /\ tasks[i].backend = BackendErr)
            => /\ Len(tasks[i].emitted) = 1
               /\ tasks[i].emitted[1].kind = "Error"

\* C8: for every submission, the events the main loop has applied are a
\* prefix of the events its decoder sent, and while the main loop runs the
\* applied events, then the events queued for the main loop, then the
\* events queued for the forwarding task are exactly the events sent, in
\* order: none dropped, none duplicated, none reordered on either hop.
C8_EventsAppliedInOrder ==
    \A i \in 1..Len(tasks) :
        /\ IsPrefix(EventsOf(applied, i), tasks[i].emitted)
        /\ rx.open =>
              EventsOf(applied, i) \o EventsOf(rx.queue, i)
                  \o tasks[i].stream.queue = tasks[i].emitted

\* a run has ended with Done, all of its events (three or more) are
\* applied, and two submissions' events went through the main loop
C8_Witness ==
    /\ Len(tasks) = 2
    /\ \A i \in 1..2 : EventsOf(applied, i) # <<>>
    /\ \E i \in 1..2 :
          /\ tasks[i].decoder.pc = "returned"
          /\ Len(tasks[i].emitted) >= 3
          /\ EventsOf(applied, i) = tasks[i].emitted

\* C9: under fair scheduling, whenever the processing flag is set the
\* session returns to Idle (flag cleared, no message left streaming),
\* unless the user quits first.
C9_EventuallyIdle ==
    [](app.is_processing =>
         <>(~rx.open \/ (~app.is_processing /\ StreamingMessages(app) = 0)))

\* C15: a message that is not streaming is frozen: no step changes its
\* content or its thinking text, or removes it.
C15_FrozenOnceNotStreaming ==
    [][\A k \in 1..Len(app.messages) :
          ~app.messages[k].is_streaming
            => /\ k <= Len(app'.messages)
               /\ app'.messages[k].content = app.messages[k].content
               /\ app'.messages[k].thinking = app.messages[k].thinking]_vars

\* C16: every task spawned for a submission ends once its decoder has
\* finished (Done sent or the backend error returned); none waits on its
\* channel forever.  Stated for the main loop still receiving: once it has
\* quit, main returns and the runtime shuts its tasks down.
C16_TasksTerminate ==
    \A i \in 1..MaxSubmissions :
        []((i <= Len(tasks) /\ tasks[i].decoder.pc = "returned")
             => <>(~rx.open \/ (i <= Len(tasks) /\ tasks[i].fwd = "done")))

\* the App as main's submission branch leaves it when Enter is pressed now,
\* before the loop drains the event queue into it
SubmitOutcome == submission(handle_event(app, Key("Enter", ""), now).val).app

\* a step of the main loop that accepts a submission: the only step that
\* empties a non-empty input line
AcceptedSubmission == app.input # <<>> /\ app'.input = <<>>

\* the input state a holds after a submission was taken from it
InputReset(a) ==
    /\ a.input = <<>> /\ a.cursor_position = 0 /\ a.selection_start = None
    /\ ~a.show_command_menu /\ a.command_menu_selected = 0
    /\ a.undo_history = << <<<<>>, 0>> >> /\ a.undo_position = 0
    /\ App_undo(a) = Ok(a)

\* a1 is a0 with one user message holding the submitted text and one empty
\* streaming assistant message appended, awaiting the reply
PromptAppended(a0, a1) ==
    /\ a1.messages = a0.messages
                       \o <<Message_user(expand_now_command(a0.input)),
                            Message_assistant_streaming>>
    /\ a1.is_processing

\* a step of an App on its own that takes Enter with a non-empty buffer
EnterStep ==
    /\ key_count' = key_count + 1 /\ last_key'.kind = "Enter"
    /\ app.input # <<>>

\* C27: an accepted submission (Enter with a non-empty buffer) hands over the
\* whole buffer text and resets the input state (text empty, cursor 0, no
\* selection, palette hidden with index 0, undo history one empty snapshot
\* at position 0, undo a no-op); with an agent configured, one user message
\* and one empty streaming assistant message are appended and the
\* processing flag is set.
C27_SubmissionAppendsPrompt ==
    [][EnterStep =>
         /\ ~panicked'
         /\ InputReset(app')
         /\ agent => PromptAppended(app, app')]_vars

\* C27 amended: the same for a line that does not begin with the sigil once
\* /now is expanded; a line that begins with it goes to handle_command: no
\* user message and no streaming message is appended and the processing
\* flag keeps its value.
C27_PlainSubmissionAppendsPrompt ==
    [][EnterStep =>
         /\ ~panicked'
         /\ InputReset(app')
         /\ IF Head(expand_now_command(app.input)) # "/"
            THEN agent => PromptAppended(app, app')
            ELSE /\ UserMessages(app') = UserMessages(app)
                 /\ StreamingMessages(app') = StreamingMessages(app)
                 /\ app'.is_processing = app.is_processing]_vars

\* C27 in main's loop, where the step that accepts a submission also drains
\* the event queue into the App the submission branch leaves, and a plain
\* line with an agent starts one task
C27_MainLoopSubmission ==
    [][AcceptedSubmission =>
         /\ app' = drain(SubmitOutcome, rx.queue)
         /\ InputReset(SubmitOutcome)
         /\ IF Head(expand_now_command(app.input)) # "/"
            THEN agent => /\ PromptAppended(app, SubmitOutcome)
                          /\ Len(tasks') = Len(tasks) + 1
            ELSE /\ UserMessages(SubmitOutcome) = UserMessages(app)
                 /\ StreamingMessages(SubmitOutcome) = StreamingMessages(app)
                 /\ SubmitOutcome.is_processing = app.is_processing
                 /\ tasks' = tasks]_vars

\* C27 witness: a line that was completed to the /now command by Tab, which
\* saved an undo snapshot, was submitted: its text reached the transcript
\* with the timestamp in place of /now, before the streaming message, and
\* the input state is reset.
C27_Witness ==
    /\ last_key.kind = "Enter" /\ app.is_processing
    /\ Len(app.messages) = 2
    /\ app.messages[1].role = "User"
    /\ Head(app.messages[1].content) = "%Y-%m-%d %H:%M:%S"
    /\ app.messages[2] = Message_assistant_streaming
    /\ InputReset(app)

\* C28: the selected index is 0 in every state in which the command menu's
\* shown flag is false, so the menu opens with its first entry selected.
C28_HiddenPaletteIndexZero ==
    (~panicked /\ ~app.show_command_menu) => app.command_menu_selected = 0

\* C28, the transition: a step that takes the menu from hidden to shown
\* leaves the selected index at 0
C28_OpensAtIndexZero ==
    [][(~app.show_command_menu /\ app'.show_command_menu /\ ~panicked')
         => app'.command_menu_selected = 0]_vars

\* C28 witness: Tab accepted the third entry, so the index was 2 while the
\* menu was shown, and the menu is hidden again.
C28_Witness ==
    /\ ~panicked /\ last_key.kind = "Tab"
    /\ app.input = <<"/", "n", "o", "w">>
    /\ ~app.show_command_menu /\ app.command_menu_selected = 0

\* C29: after an Up or Down key handled while the command menu is shown with
\* at least one match, the selected index lies in [0, filtered length - 1],
\* also when earlier typing left it larger than the list; Up at index 0 and
\* Down at the last index leave it unchanged.
C29_NavigationClampsIndex ==
    [][(/\ key_count' = key_count + 1 /\ last_key'.kind \in {"Up", "Down"}
        /\ ~panicked /\ ~panicked'
        /\ app.show_command_menu /\ get_filtered_commands(app).val # <<>>)
       => LET n == Len(get_filtered_commands(app').val)
          IN /\ app'.command_menu_selected <= n - 1
             /\ (last_key'.kind = "Up" /\ app.command_menu_selected = 0)
                  => app'.command_menu_selected = 0
             /\ (last_key'.kind = "Down" /\ app.command_menu_selected = n - 1)
                  => app'.command_menu_selected = n - 1]_vars

\* a1 is a0 with the span from the start of the current word to the cursor
\* replaced by entry, the cursor right after it and the menu hidden
TabEffect(a0, a1, entry) ==
    LET k == chars_before(a0.input, a0.cursor_position)
        w == rfind_whitespace(a0.input, k)
    IN /\ a1.input = SubSeq(a0.input, 1, w) \o entry
                       \o SubSeq(a0.input, k + 1, Len(a0.input))
       /\ a1.cursor_position = str_len(SubSeq(a0.input, 1, w) \o entry)
       /\ ~a1.show_command_menu

\* a step of an App on its own that takes Tab while the menu is shown
TabStep ==
    /\ key_count' = key_count + 1 /\ last_key'.kind = "Tab"
    /\ ~panicked /\ app.show_command_menu

\* C30: Tab with the command menu shown and a non-empty filtered list
\* replaces exactly the span from word start to cursor with the keyword of
\* the entry at the selected index of the filtered list, puts the cursor
\* right after it and hides the menu; with an empty filtered list it leaves
\* text and cursor unchanged.
C30_TabAcceptsSelectedEntry ==
    [][TabStep =>
         LET f == get_filtered_commands(app).val
         IN IF f # <<>>
            THEN /\ ~panicked'
                 /\ app.command_menu_selected < Len(f)
                 /\ TabEffect(app, app', f[app.command_menu_selected + 1])
            ELSE /\ app'.input = app.input
                 /\ app'.cursor_position = app.cursor_position]_vars

\* C30 where the selected index is an index of the filtered list
C30_TabAcceptsEntryInRange ==
    [][TabStep =>
         LET f == get_filtered_commands(app).val
         IN IF f # <<>>
            THEN app.command_menu_selected < Len(f)
                   => /\ ~panicked'
                      /\ TabEffect(app, app', f[app.command_menu_selected + 1])
            ELSE /\ app'.input = app.input
                 /\ app'.cursor_position = app.cursor_position]_vars

\* emitted[i] is a chunk
IsChunk(i) == emitted[i].kind \in {"ContentChunk", "ThinkingChunk"}

\* emitted[i] is a chunk that is neither the text before a close marker
\* (ThinkingEnd follows it) nor the last chunk of the run
IsFlushChunk(i) ==
    /\ IsChunk(i)
    /\ \E j \in (i + 1)..Len(emitted) : IsChunk(j)
    /\ emitted[i + 1].kind # "ThinkingEnd"

\* the decoder was InThinking when it emitted emitted[i]: the last marker
\* event before it is a ThinkingStart
InThinkingAt(i) ==
    \E j \in 1..(i - 1) :
        /\ emitted[j].kind = "ThinkingStart"
        /\ \A n \in (j + 1)..(i - 1) : emitted[n].kind # "ThinkingEnd"

\* C31: outside marker handling a chunk is emitted exactly when the rolling
\* buffer reaches 5 characters: every chunk except possibly the last before
\* Done carries exactly 5 characters, no chunk is empty, and a chunk is a
\* ThinkingChunk iff the decoder is InThinking, multi-byte replies included.
C31_ChunksOfFiveChars ==
    \A i \in 1..Len(emitted) :
        IsChunk(i)
        => /\ emitted[i].text # <<>>
           /\ IsFlushChunk(i) => Len(emitted[i].text) = FLUSH_LEN
           /\ emitted[i].kind = "ThinkingChunk" <=> InThinkingAt(i)

\* C31 counted in bytes: a chunk of the flush branch is emitted as soon as
\* the buffer holds 5 bytes or more, so it holds between 5 and 7 bytes (the
\* chars of the model are at most 3 bytes long)
C31_ChunksOfFiveBytes ==
    \A i \in 1..Len(emitted) :
        IsChunk(i)
        => /\ emitted[i].text # <<>>
           /\ IsFlushChunk(i)
                => /\ str_len(emitted[i].text) >= FLUSH_LEN
                   /\ str_len(SubSeq(emitted[i].text, 1,
                                     Len(emitted[i].text) - 1)) < FLUSH_LEN
           /\ emitted[i].kind = "ThinkingChunk" <=> InThinkingAt(i)

\* the latest assistant message of a, the one update_last_message changes
LatestAssistant(a) ==
    LET idx == {i \in 1..Len(a.messages) : a.messages[i].role = "Assistant"}
    IN a.messages[CHOOSE i \in idx : \A j \in idx : j <= i]

\* m holds the reply the events evs make: the content chunks as content, the
\* thinking chunks as thinking text (none if there were none), finished
HoldsReply(m, evs) ==
    /\ m.content = Payload(evs, "ContentChunk")
    /\ m.thinking = IF \E n \in 1..Len(evs) : evs[n].kind = "ThinkingChunk"
                    THEN Some(Payload(evs, "ThinkingChunk")) ELSE None
    /\ ~m.is_streaming

\* C32: when the main loop has drained all events of a single successful
\* reply, the latest assistant message holds the concatenation of the
\* ContentChunk payloads as content and of the ThinkingChunk payloads as
\* thinking text (absent if none), is not streaming, and the processing flag
\* is cleared; and after each drain the event queue is empty.
C32_DrainedReplyAssembled ==
    [][/\ (/\ Len(tasks) = 1 /\ Len(tasks') = 1
           /\ tasks[1].emitted # <<>>
           /\ tasks[1].emitted[Len(tasks[1].emitted)].kind = "Done"
           /\ EventsOf(applied, 1) # tasks[1].emitted
           /\ EventsOf(applied', 1) = tasks[1].emitted)
          => /\ HoldsReply(LatestAssistant(app'), tasks[1].emitted)
             /\ ~app'.is_processing
       /\ applied' # applied => rx'.queue = <<>>]_vars

\* the keywords handle_command answers with a response
RespondingCommands == { <<"/", "h", "e", "l", "p">>, <<"/", "s", "a", "v", "e">> }

\* what C33 says the submission of the slash line `line` makes of a0:
\* a1 is the App afterwards
CommandEffect(a0, line, a1) ==
    /\ UserMessages(a1) = UserMessages(a0)
    /\ StreamingMessages(a1) = StreamingMessages(a0)
    /\ a1.is_processing = a0.is_processing
    /\ IF line \in RespondingCommands
       THEN /\ Len(a1.messages) = Len(a0.messages) + 1
            /\ SubSeq(a1.messages, 1, Len(a0.messages)) = a0.messages
            /\ a1.messages[Len(a1.messages)].role = "Assistant"
            /\ a1.messages[Len(a1.messages)].content # <<>>
            /\ a1.mode = a0.mode
       ELSE IF line = <<"/", "c", "o", "n", "f", "i", "g">>
       THEN a1.messages = a0.messages /\ a1.mode = "Config"
       ELSE a1.messages = a0.messages /\ a1.mode = a0.mode

\* C33: a submitted line that begins with '/' is never sent to the backend
\* and never appended as a user message: it goes to the command handler,
\* which appends an assistant response for /help and /save, opens the config
\* editor for /config, and for any other line appends nothing and changes no
\* transcript state.  The submitted line is the one take_input hands over.
C33_SlashLineNotSent ==
    [][(EnterStep /\ Head(expand_now_command(app.input)) = "/")
         => /\ ~submission(handle_event(app, Key("Enter", ""), now).val).spawn
            /\ CommandEffect(app, expand_now_command(app.input), app')]_vars

\* C33 in main's loop: no task is started, and the transcript grows by the
\* response alone (the drain of the same iteration may append to it)
C33_MainLoopSlashLine ==
    [][(AcceptedSubmission /\ Head(expand_now_command(app.input)) = "/")
         => /\ tasks' = tasks
            /\ UserMessages(app') = UserMessages(app)
            /\ Len(app'.messages) = Len(app.messages)
                 + (IF expand_now_command(app.input) \in RespondingCommands
                    THEN 1 ELSE 0)
            /\ app'.mode = IF app.input = <<"/", "c", "o", "n", "f", "i", "g">>
                           THEN "Config" ELSE app.mode]_vars

\* C33 witness: /help was submitted after a plain line: its response is the
\* latest message, after the user message and the streaming message.
C33_Witness ==
    /\ last_key.kind = "Enter"
    /\ Len(app.messages) = 3
    /\ app.messages[1].role = "User"
    /\ app.messages[3] = Message_assistant(<<"Commands: ...">>)
    /\ app.input = <<>>

\* C34: Enter with an empty buffer is not a submission: no message is
\* appended, no backend call is started, the mode, buffer, cursor, selection
\* and undo history are unchanged, and the submit flag is cleared.
C34_EmptyEnterIsNoSubmission ==
    [][(/\ key_count' = key_count + 1 /\ last_key'.kind = "Enter"
        /\ app.input = <<>>)
         => /\ ~submission(handle_event(app, Key("Enter", ""), now).val).spawn
            /\ app'.messages = app.messages
            /\ app'.is_processing = app.is_processing
            /\ app'.mode = app.mode
            /\ input_fields(app') = input_fields(app)
            /\ app'.undo_history = app.undo_history
            /\ app'.undo_position = app.undo_position
            /\ ~app'.submit]_vars

\* C34 in main's loop: the submit flag never outlives an iteration
C34_SubmitFlagCleared == ~app.submit

\* C34 witness: Enter on a buffer emptied again by Backspace: the undo
\* history of the edits is still there and the transcript is empty.
C34_Witness ==
    /\ last_key.kind = "Enter"
    /\ app.input = <<>>
    /\ Len(app.undo_history) > 1
    /\ app.messages = <<>>
    /\ ~app.submit

\* the keys whose arm calls save_to_undo(true) before it edits
ForcedSaveKeys ==
    {Key(k, "") : k \in {"Backspace", "Delete", "CtrlD", "Tab"}}
      \cup {Key("Char", c) : c \in {m \in MenuChars :
                                      is_whitespace(m) \/ is_ascii_punctuation(m)}}

\* C35: in the App key handling, one Ctrl+Z right after an edit that forced a
\* save (Backspace, Delete, Ctrl+D clear, Tab acceptance, a whitespace or
\* punctuation character) restores the text and the cursor to exactly what
\* they were immediately before that edit.
C35_UndoRestoresPreEditState ==
    (~panicked /\ ~app.should_quit) =>
      \A key \in ForcedSaveKeys :
        LET edit == handle_event(app, key, now) IN
          (~edit.panic /\ ~edit.val.should_quit /\ edit.val.input # app.input)
            => LET back == handle_event(edit.val, Key("CtrlZ", ""), now)
               IN /\ ~back.panic
                  /\ back.val.input = app.input
                  /\ back.val.cursor_position = app.cursor_position

\* the index of the assistant message the i-th agent submission created: the
\* one add_message put right after the i-th user message (main.rs:104-111)
OwnMessage(a, i) ==
    1 + CHOOSE k \in 1..Len(a.messages) :
          /\ a.messages[k].role = "User"
          /\ Cardinality({j \in 1..k : a.messages[j].role = "User"}) = i

\* C36: every ContentChunk and ThinkingChunk is appended to the assistant
\* message created by the submission whose reply produced it, never to a
\* different message: the message of each submission starts with the chunks
\* of its own reply that the loop has drained, for every interleaving of key
\* events, further submissions and drained events.
C36_ChunksGoToOwnMessage ==
    \A i \in 1..Len(tasks) :
      LET m == app.messages[OwnMessage(app, i)]
          evs == EventsOf(applied, i)
      IN /\ IsPrefix(Payload(evs, "ContentChunk"), m.content)
         /\ (\E n \in 1..Len(evs) : evs[n].kind = "ThinkingChunk")
              => /\ m.thinking.is_some
                 /\ IsPrefix(Payload(evs, "ThinkingChunk"), m.thinking.v)

\* C37: whenever a selection anchor is present, 0 <= anchor <= len(text),
\* after any sequence of editing, movement, select-all, undo, clear,
\* Tab-acceptance and submit operations on ASCII input, so the selection
\* range [min(anchor, cursor), max(anchor, cursor)) lies inside the text.
C37_AnchorInsideText ==
    app.selection_start.is_some
      => /\ 0 <= app.selection_start.v
         /\ app.selection_start.v <= str_len(app.input)
         /\ app.cursor_position <= str_len(app.input)

\* C37 for TextInputState on its own: before any panic, the anchor is
\* inside the text
C37_TextInputAnchorInside ==
    input_state.selection_start.is_some
      => input_state.selection_start.v <= str_len(input_state.text)

\* C37 witness: Tab accepted a keyword while an anchor was present, and the
\* anchor is still there
C37_Witness ==
    /\ last_key.kind = "Tab"
    /\ app.selection_start.is_some
    /\ Len(app.input) > 3

\* C38: delete_before (Backspace) applied to a buffer with cursor > 0 always
\* shortens the text by at least one character, whatever sequence of moves
\* (including extended moves clamped at a buffer end) preceded it.  Stated
\* for buffers of one-byte characters.
C38_BackspaceShortensText ==
    [][(/\ ~panicked
        /\ \A n \in 1..Len(input_state.text) : len_utf8(input_state.text[n]) = 1
        /\ input_state.cursor_position > 0
        /\ TextOutcome(delete_char_before(input_state)))
         => /\ ~panicked'
            /\ Len(input_state'.text) < Len(input_state.text)]_vars

RECURSIVE AllPayload(_)
\* the payloads of the ContentChunk and ThinkingChunk events of evs,
\* concatenated in emission order
AllPayload(evs) ==
    IF evs = <<>> THEN <<>>
    ELSE (IF Head(evs).kind \in {"ContentChunk", "ThinkingChunk"}
          THEN Head(evs).text ELSE <<>>)
         \o AllPayload(Tail(evs))

RECURSIVE Rebuilt(_)
\* the events the loop has emitted, with each recognised marker put back
\* where its ThinkingStart or ThinkingEnd stands
Rebuilt(evs) ==
    IF evs = <<>> THEN <<>>
    ELSE (CASE Head(evs).kind \in {"ContentChunk", "ThinkingChunk"} -> Head(evs).text
            [] Head(evs).kind = "ThinkingStart" -> THINKING_OPEN
            [] Head(evs).kind = "ThinkingEnd" -> THINKING_CLOSE
            [] OTHER -> <<>>)
         \o Rebuilt(Tail(evs))

\* C39: the decoder never loses, duplicates or reorders reply text: while
\* the sink stays open, the payloads of the chunks emitted so far, with the
\* recognised markers put back in place, followed by the rolling buffer and
\* the unread rest, are the reply; and the tail adds the rolling buffer as the
\* last payload, so that the payloads of all chunks in emission order are the
\* reply with exactly the recognised marker occurrences removed.
C39_NoTextLostOrReordered ==
    /\ []((backend.ok /\ stream.open /\ decoder.pc \in {"loop", "tail"})
            => Rebuilt(emitted) \o decoder.current_chunk \o decoder.rest
                 = backend.text)
    /\ [][(stream'.open /\ decoder.pc = "tail" /\ decoder'.pc = "returned")
            => AllPayload(emitted')
                 = AllPayload(emitted) \o decoder.current_chunk]_vars

\* C39 witness: a reply with a marker text in it has been decoded to the end
\* on an open sink into several chunks and a residue
C39_Witness ==
    /\ decoder.pc = "returned" /\ decoder.result = "Ok"
    /\ stream.open
    /\ \E n \in 1..(Len(backend.text) - Len(THINKING_CLOSE) + 1) :
          SubSeq(backend.text, n, n + Len(THINKING_CLOSE) - 1) = THINKING_CLOSE
    /\ Cardinality({i \in 1..Len(emitted) : IsChunk(i)}) >= 3
    /\ str_len(emitted[Len(emitted) - 1].text) < FLUSH_LEN
    /\ AllPayload(emitted) = backend.text

====
